---- MODULE Spec2Model ----
(***************************************************************************)
(* A model of depfix's version resolver (core/resolve_python.py):          *)
(* PythonResolver with its metadata cache and its asyncio.Semaphore,       *)
(* resolve_entry's pipeline (fetch, runtime filter, constraint, delta) and *)
(* resolve_entries' asyncio.gather over the per-entry tasks.               *)
(*                                                                         *)
(* Strings are modelled by their structure:                                *)
(*   a version string  [ok, lead, rel, pre]   "v1.2.0a1" is                 *)
(*        ok = TRUE, lead = "v", rel = <<1,2,0>>, pre = 1;                   *)
(*        ok = FALSE is a text packaging.version.Version rejects;           *)
(*   a specifier text  [kind, clauses]  kind "none" is None, "empty" is "", *)
(*        "set" is "op ver, op ver", "bare" is a bare "1.2.3", "junk" is    *)
(*        any other text.                                                   *)
(***************************************************************************)
EXTENDS Naturals, Integers, Sequences, FiniteSets, TLC

(***************************************************************************)
(* Bounds of the model.                                                     *)
(***************************************************************************)
MaxEntries == 3
MaxConcurrencyBound == 3
MaxReleases == 3

\* max_concurrency's default value
DefaultMaxConcurrency == 6

(***************************************************************************)
(* packaging.version.Version                                                *)
(***************************************************************************)
VStr(lead, rel, pre) == [ok |-> TRUE, lead |-> lead, rel |-> rel, pre |-> pre]
BadVStr == [ok |-> FALSE, lead |-> "", rel |-> <<>>, pre |-> 0]

\* Version(s): the parsed value; the caller checks s.ok (InvalidVersion raised otherwise)
Version(s) == [rel |-> s.rel, pre |-> s.pre]

\* str(Version): the normalised text, without the leading "v"
VersionStr(v) == VStr("", v.rel, v.pre)

RECURSIVE StripZeros(_)
\* Version._key: the release with its trailing zeros dropped
StripZeros(rel) ==
    IF Len(rel) > 0 /\ rel[Len(rel)] = 0
    THEN StripZeros(SubSeq(rel, 1, Len(rel) - 1))
    ELSE rel

RECURSIVE TupleLessFrom(_, _, _)
TupleLessFrom(a, b, i) ==
    IF i > Len(a) THEN i <= Len(b)
    ELSE IF i > Len(b) THEN FALSE
    ELSE IF a[i] # b[i] THEN a[i] < b[i]
    ELSE TupleLessFrom(a, b, i + 1)

\* Python's tuple comparison: element by element, a proper prefix is smaller
TupleLess(a, b) == TupleLessFrom(a, b, 1)

\* The decimal digits of a release component (components stay below 100)
Digits(n) == IF n < 10 THEN <<n>> ELSE <<n \div 10, n % 10>>

RECURSIVE ReleaseText(_)
\* The characters of "1.10.0": digits, with 0 - 1 standing for the dot (which
\* sorts before every digit, as "." does in ASCII)
ReleaseText(rel) ==
    IF Len(rel) = 0 THEN <<>>
    ELSE IF Len(rel) = 1 THEN Digits(rel[1])
    ELSE Digits(rel[1]) \o <<0 - 1>> \o ReleaseText(Tail(rel))

\* A comparison of the version texts as strings
VersionLessLexical(a, b) ==
    \/ TupleLess(ReleaseText(a.rel), ReleaseText(b.rel))
    \/ a.rel = b.rel /\ a.pre = 1 /\ b.pre = 0

\* Version.__eq__: equal keys
VersionEq(a, b) == StripZeros(a.rel) = StripZeros(b.rel) /\ a.pre = b.pre

\* Version.__lt__: by release, numerically; a pre-release sorts before its release
VersionLess(a, b) ==
    \/ TupleLess(StripZeros(a.rel), StripZeros(b.rel))
    \/ StripZeros(a.rel) = StripZeros(b.rel) /\ a.pre = 1 /\ b.pre = 0

VersionLeq(a, b) == VersionLess(a, b) \/ VersionEq(a, b)

Component(rel, i) == IF Len(rel) >= i THEN rel[i] ELSE 0
major(v) == Component(v.rel, 1)
minor(v) == Component(v.rel, 2)
micro(v) == Component(v.rel, 3)

RECURSIVE MaxFrom(_, _, _)
MaxFrom(vs, i, best) ==
    IF i > Len(vs) THEN best
    ELSE MaxFrom(vs, i + 1, IF VersionLess(best, vs[i]) THEN vs[i] ELSE best)

\* Python's max() over a non-empty list of Version: the first greatest element
max(vs) == MaxFrom(vs, 2, vs[1])

(***************************************************************************)
(* packaging.specifiers.SpecifierSet                                        *)
(***************************************************************************)
NoSpec == [kind |-> "none", clauses |-> <<>>]
EmptySpec == [kind |-> "empty", clauses |-> <<>>]
JunkSpec == [kind |-> "junk", clauses |-> <<>>]
Clause(op, ver) == [op |-> op, ver |-> ver]
SetSpec(clauses) == [kind |-> "set", clauses |-> clauses]
BareSpec(ver) == [kind |-> "bare", clauses |-> <<Clause("", ver)>>]

Operators == {"==", "!=", ">=", "<=", ">", "<"}

\* bool(spec): None and "" are falsy
Truthy(spec) == spec.kind \notin {"none", "empty"}

\* SpecifierSet(text) succeeds (InvalidSpecifier raised otherwise)
SpecifierSetOk(spec) ==
    /\ spec.kind = "set"
    /\ \A i \in 1..Len(spec.clauses) :
          spec.clauses[i].op \in Operators /\ spec.clauses[i].ver.ok

\* Specifier.prereleases: the clause names a pre-release
ClauseAllowsPre(c) == c.op \in {"==", ">=", "<="} /\ c.ver.pre = 1

\* A clause whose "==" admits every later version too
ClauseContainsAtLeast(c, v) ==
    LET s == Version(c.ver) IN
    CASE c.op \in {"==", ">="} -> ~VersionLess(v, s)
      [] c.op = "!=" -> ~VersionEq(v, s)
      [] c.op = "<=" -> VersionLeq(v, s)
      [] c.op = ">"  -> VersionLess(s, v)
      [] c.op = "<"  -> VersionLess(v, s)
      [] OTHER -> FALSE

\* Specifier.contains for one clause, pre-release admission aside
ClauseContains(c, v) ==
    LET s == Version(c.ver) IN
    CASE c.op = "==" -> VersionEq(v, s)
      [] c.op = "!=" -> ~VersionEq(v, s)
      [] c.op = ">=" -> ~VersionLess(v, s)
      [] c.op = "<=" -> VersionLeq(v, s)
      [] c.op = ">"  -> VersionLess(s, v)
      [] c.op = "<"  -> /\ VersionLess(v, s)
                        /\ ~(s.pre = 0 /\ v.pre = 1
                             /\ StripZeros(v.rel) = StripZeros(s.rel))
      [] OTHER -> FALSE

\* v in SpecifierSet(spec): a pre-release only when some clause names one,
\* and every clause holds
Contains(spec, v) ==
    /\ v.pre = 1 => \E i \in 1..Len(spec.clauses) : ClauseAllowsPre(spec.clauses[i])
    /\ \A i \in 1..Len(spec.clauses) : ClauseContains(spec.clauses[i], v)

\* A list comprehension that keeps every version
FilterAll(vs, spec, i) == vs

RECURSIVE Filter(_, _, _)
\* [v for v in vs if v in spec_set], order kept
Filter(vs, spec, i) ==
    IF i > Len(vs) THEN <<>>
    ELSE (IF Contains(spec, vs[i]) THEN <<vs[i]>> ELSE <<>>) \o Filter(vs, spec, i + 1)

(***************************************************************************)
(* core/models.py                                                           *)
(***************************************************************************)
ManifestEntry(name, spec, markers, extras) ==
    [name |-> name, spec |-> spec, markers |-> markers, extras |-> extras]


\* The result built around a fresh entry of the same name and specifier
ResolutionResultRebuilt(entry, chosen_version, reason, semver_delta) ==
    [kind |-> "result", entry |-> [entry EXCEPT !.markers = "", !.extras = <<>>],
     chosen_version |-> chosen_version,
     reason |-> reason, semver_delta |-> semver_delta, advisories |-> <<>>]

ResolutionResult(entry, chosen_version, reason, semver_delta) ==
    [kind |-> "result", entry |-> entry, chosen_version |-> chosen_version,
     reason |-> reason, semver_delta |-> semver_delta, advisories |-> <<>>]

\* raise Exception(f"<msg> {name}")
Raised(msg, name) == [kind |-> "exc", msg |-> msg, name |-> name]

(***************************************************************************)
(* The registry's JSON: {"info": {"version": ...}, "releases": {ver: [file]}}*)
(* releases keeps the dict's order; a file is {"requires_python": ...} or    *)
(* has no such key.                                                          *)
(***************************************************************************)
File(has_rp, rp) == [has_rp |-> has_rp, rp |-> rp]
Release(ver, files) == [ver |-> ver, files |-> files]
Metadata(info, releases) == [found |-> TRUE, info |-> info, releases |-> releases]
\* _fetch_package_metadata's None
NoneMetadata == [found |-> FALSE, info |-> BadVStr, releases |-> <<>>]
\* "info" without a "version"
NoInfo == BadVStr
\* A package whose request the registry never answers
NoAnswer == [found |-> FALSE, info |-> BadVStr, releases |-> <<>>, silent |-> TRUE]
Silent(metadata) == "silent" \in DOMAIN metadata

\* self.python_version: None (or ""), or a text
PyUnset == [set |-> FALSE, ver |-> BadVStr]
Py(ver) == [set |-> TRUE, ver |-> ver]

(***************************************************************************)
(* PythonResolver._is_compatible_with_python                                *)
(***************************************************************************)
\* The loop body with the membership test the wrong way round
FileRejectsSatisfied(pyver, file_info) ==
    /\ file_info.has_rp
    /\ Truthy(file_info.rp)
    /\ SpecifierSetOk(file_info.rp)
    /\ pyver.ver.ok
    /\ Contains(file_info.rp, Version(pyver.ver))

\* One pass of the loop body: the file makes the method return False
FileRejects(pyver, file_info) ==
    /\ file_info.has_rp
    /\ Truthy(file_info.rp)
    /\ SpecifierSetOk(file_info.rp)
    /\ pyver.ver.ok
    /\ ~Contains(file_info.rp, Version(pyver.ver))

RECURSIVE CompatibleFrom(_, _, _)
CompatibleFrom(pyver, release_files, i) ==
    IF i > Len(release_files) THEN TRUE
    ELSE IF FileRejects(pyver, release_files[i]) THEN FALSE
    ELSE CompatibleFrom(pyver, release_files, i + 1)

_is_compatible_with_python(pyver, release_files) ==
    IF ~pyver.set THEN TRUE
    ELSE CompatibleFrom(pyver, release_files, 1)

(***************************************************************************)
(* PythonResolver._calculate_semver_delta                                   *)
(***************************************************************************)
\* The test that takes any leading operator for a pin
StartsWithOperator(spec) == spec.kind = "set"

\* entry.spec.startswith("==")
StartsWithEqEq(spec) == spec.kind = "set" /\ spec.clauses[1].op = "=="

\* entry.spec[2:].strip() as a version text: the rest of "==1.0,<2" is no version
AfterEqEq(spec) == IF Len(spec.clauses) = 1 THEN spec.clauses[1].ver ELSE BadVStr

\* re.match(r"^\d+\.", entry.spec)
IsPlainVersion(spec) ==
    /\ spec.kind = "bare"
    /\ spec.clauses[1].ver.lead = ""
    /\ Len(spec.clauses[1].ver.rel) >= 2

\* The comparison with the minor component looked at first
CompareMinorFirst(old_ver, new_ver) ==
    IF VersionLess(old_ver, new_ver)
    THEN (IF minor(new_ver) > minor(old_ver) THEN "minor"
          ELSE IF major(new_ver) > major(old_ver) THEN "major"
          ELSE IF micro(new_ver) > micro(old_ver) THEN "patch"
          ELSE "unknown")
    ELSE "unknown"

CompareVersions(old_ver, new_ver) ==
    IF VersionLess(old_ver, new_ver)
    THEN (IF major(new_ver) > major(old_ver) THEN "major"
          ELSE IF minor(new_ver) > minor(old_ver) THEN "minor"
          ELSE IF micro(new_ver) > micro(old_ver) THEN "patch"
          ELSE "unknown")
    ELSE "unknown"

_calculate_semver_delta(entry, new_version) ==
    IF ~Truthy(entry.spec) THEN "unknown"
    ELSE LET current_version ==
                 IF StartsWithEqEq(entry.spec) THEN AfterEqEq(entry.spec)
                 ELSE IF IsPlainVersion(entry.spec) THEN entry.spec.clauses[1].ver
                 ELSE BadVStr
         IN  IF ~current_version.ok \/ ~new_version.ok THEN "unknown"
             ELSE CompareVersions(Version(current_version), Version(new_version))

(***************************************************************************)
(* PythonResolver.resolve_entry, after the metadata is there                *)
(***************************************************************************)
RECURSIVE AvailableUnfilteredFrom(_, _, _)
\* The loop without the call of the runtime filter
AvailableUnfilteredFrom(pyver, releases, i) ==
    IF i > Len(releases) THEN <<>>
    ELSE (IF releases[i].ver.ok THEN <<Version(releases[i].ver)>> ELSE <<>>)
         \o AvailableUnfilteredFrom(pyver, releases, i + 1)

RECURSIVE AvailableFrom(_, _, _)
\* The loop over releases.keys(): malformed versions and versions the runtime
\* filter excludes are skipped
AvailableFrom(pyver, releases, i) ==
    IF i > Len(releases) THEN <<>>
    ELSE (IF /\ releases[i].ver.ok
             /\ _is_compatible_with_python(pyver, releases[i].files)
          THEN <<Version(releases[i].ver)>> ELSE <<>>)
         \o AvailableFrom(pyver, releases, i + 1)

available_versions(pyver, metadata) ==
    AvailableFrom(pyver, metadata.releases, 1)

Reason(msg, spec, pyver) == [msg |-> msg, spec |-> spec, py |-> pyver]

\* The choice that takes the first listed version for an invalid specifier
ChooseInvalidFirst(entry, available) ==
    IF Truthy(entry.spec)
    THEN IF SpecifierSetOk(entry.spec)
         THEN LET compatible_versions == Filter(available, entry.spec, 1) IN
              IF compatible_versions # <<>>
              THEN [version |-> max(compatible_versions),
                    msg |-> "Latest version satisfying constraint"]
              ELSE [version |-> max(available),
                    msg |-> "No versions satisfy, using latest available"]
         ELSE [version |-> available[1],
               msg |-> "Invalid constraint, using latest available"]
    ELSE [version |-> max(available),
          msg |-> "Latest available version (no constraints)"]

\* The choice that takes the first listed version when no version satisfies
ChooseUnsatFirst(entry, available) ==
    IF Truthy(entry.spec)
    THEN IF SpecifierSetOk(entry.spec)
         THEN LET compatible_versions == Filter(available, entry.spec, 1) IN
              IF compatible_versions # <<>>
              THEN [version |-> max(compatible_versions),
                    msg |-> "Latest version satisfying constraint"]
              ELSE [version |-> available[1],
                    msg |-> "No versions satisfy, using latest available"]
         ELSE [version |-> max(available),
               msg |-> "Invalid constraint, using latest available"]
    ELSE [version |-> max(available),
          msg |-> "Latest available version (no constraints)"]

\* chosen_version and the reason's text
Choose(entry, available) ==
    IF Truthy(entry.spec)
    THEN IF SpecifierSetOk(entry.spec)
         THEN LET compatible_versions == Filter(available, entry.spec, 1) IN
              IF compatible_versions # <<>>
              THEN [version |-> max(compatible_versions),
                    msg |-> "Latest version satisfying constraint"]
              ELSE [version |-> max(available),
                    msg |-> "No versions satisfy, using latest available"]
         ELSE [version |-> max(available),
               msg |-> "Invalid constraint, using latest available"]
    ELSE [version |-> max(available),
          msg |-> "Latest available version (no constraints)"]

\* The f-string's interpolated entry.spec (none in the last message)
ReasonSpec(entry) == IF Truthy(entry.spec) THEN entry.spec ELSE NoSpec

\* resolve_entry from "if not metadata" to the return
ResolveWithMetadata(pyver, entry, metadata) ==
    IF ~metadata.found THEN Raised("Package not found", entry.name)
    ELSE IF metadata.releases = <<>> THEN Raised("No releases found for package", entry.name)
    ELSE LET available == available_versions(pyver, metadata) IN
         IF available = <<>> THEN Raised("No compatible versions found for", entry.name)
         ELSE LET c == Choose(entry, available)
                  chosen == VersionStr(c.version)
              IN  ResolutionResult(entry, chosen,
                                   Reason(c.msg, ReasonSpec(entry), pyver),
                                   _calculate_semver_delta(entry, chosen))

(***************************************************************************)
(* PythonResolver.get_latest_version, after the metadata is there           *)
(***************************************************************************)
RECURSIVE AllVersionsFrom(_, _)
AllVersionsFrom(releases, i) ==
    IF i > Len(releases) THEN <<>>
    ELSE <<Version(releases[i].ver)>> \o AllVersionsFrom(releases, i + 1)


\* The fallback that takes the first release listed
LatestFirstListed(name, metadata) ==
    IF ~metadata.found THEN Raised("Package not found", name)
    ELSE IF metadata.info.ok
    THEN [kind |-> "latest", version |-> metadata.info]
    ELSE IF metadata.releases = <<>> THEN Raised("No releases found for package", name)
    ELSE IF \E i \in 1..Len(metadata.releases) : ~metadata.releases[i].ver.ok
    THEN Raised("InvalidVersion", name)
    ELSE [kind |-> "latest", version |-> VersionStr(Version(metadata.releases[1].ver))]

LatestWithMetadata(name, metadata) ==
    IF ~metadata.found THEN Raised("Package not found", name)
    ELSE IF metadata.info.ok
    THEN [kind |-> "latest", version |-> metadata.info]
    ELSE IF metadata.releases = <<>> THEN Raised("No releases found for package", name)
    ELSE IF \E i \in 1..Len(metadata.releases) : ~metadata.releases[i].ver.ok
    THEN Raised("InvalidVersion", name)
    ELSE [kind |-> "latest",
          version |-> VersionStr(max(AllVersionsFrom(metadata.releases, 1)))]

(***************************************************************************)
(* The state: one PythonResolver, the registry it talks to, one             *)
(* resolve_entries(entries) call with a task per entry, and a caller of     *)
(* get_latest_version beside it.                                            *)
(***************************************************************************)
VARIABLES
    python_version,   \* self.python_version
    max_concurrency,  \* self.max_concurrency
    cache,            \* self._cache: package name -> metadata
    sem_value,        \* self._semaphore._value
    sem_waiters,      \* self._semaphore._waiters: the tasks queued in acquire()
    registry,         \* what pypi.org holds: package name -> metadata or None (404)
    entries,          \* the argument of resolve_entries
    pc,               \* per task: "created", "waiting", "granted", "fetching", "done", "cancelled"
    outcome,          \* per finished task: the ResolutionResult or the exception
    gather,           \* the future resolve_entries awaits
    failures,         \* the ways a request can fail in this run's network
    side,             \* the get_latest_version call made beside the batch
    requests,         \* history: GET requests issued, per package name
    failed,           \* history: requests that ended without metadata, per name
    overlaps,         \* history: requests issued while another for the name was in flight
    completion,       \* history: the tasks in the order they finished
    late,             \* history: the tasks that finished after gather had raised
    answer,           \* history: how the request of each task ended ("none": no answer)
    fs,               \* the files on disk: path -> content, or Absent
    proc,             \* the depfix update process: its command line, position, exit code
    web               \* the POST /api/update request being served, and its response

vars == <<python_version, max_concurrency, cache, sem_value, sem_waiters, registry,
          entries, pc, outcome, gather, failures, side, requests, failed,
          overlaps, completion, late, answer, fs, proc, web>>

\* The applications around the resolver
apps == <<fs, proc, web>>

config == <<python_version, max_concurrency, registry, entries, failures>>

Names == {"a", "b", "c"}
Tasks == 1..Len(entries)
Nothing == [kind |-> "none"]
Idle == [pc |-> "idle", name |-> "", out |-> Nothing]

(***************************************************************************)
(* PythonResolver._fetch_package_metadata                                   *)
(***************************************************************************)
\* A cache that is never consulted
NeverCached(c, name) == FALSE
\* package_name in self._cache
InCache(c, name) == name \in DOMAIN c

\* A fetch that stores nothing
CacheKeep(c, name, metadata) == c

\* A cache of one entry: the last response
CacheReplace(c, name, metadata) == [n \in {name} |-> metadata]

\* self._cache[package_name] = metadata
CacheStore(c, name, metadata) ==
    [n \in (DOMAIN c) \cup {name} |-> IF n = name THEN metadata ELSE c[n]]

\* A client without timeout: a request that is never answered never ends
ResponsesUntimed(name) ==
    IF Silent(registry[name]) THEN {}
    ELSE (IF registry[name].found THEN {"200"} ELSE {"404"}) \cup failures

\* What client.get can end in for a package: the registry's answer, or a
\* failure; with no answer at all, the client's timeout
Responses(name) ==
    IF Silent(registry[name]) THEN {"timeout"}
    ELSE (IF registry[name].found THEN {"200"} ELSE {"404"}) \cup failures

\* The value _fetch_package_metadata returns or the exception it raises
\* The fetch without the tests for 404: raise_for_status() raises on it
FetchResultRaising(name, response) ==
    CASE response = "200" -> registry[name]
      [] response = "timeout" -> Raised("Timeout fetching metadata for", name)
      [] response \in {"status", "404"} -> Raised("HTTP error fetching", name)
      [] OTHER -> Raised("Network error fetching", name)

\* The fetch that answers None to every failure
FetchResultSwallowing(name, response) ==
    IF response = "200" THEN registry[name] ELSE NoneMetadata

FetchResult(name, response) ==
    CASE response = "200" -> registry[name]
      [] response = "404" -> NoneMetadata
      [] response = "timeout" -> Raised("Timeout fetching metadata for", name)
      [] response = "status" -> Raised("HTTP error fetching", name)
      [] OTHER -> Raised("Network error fetching", name)

IsRaised(x) == "kind" \in DOMAIN x /\ x.kind = "exc"

InFlight(name) ==
    Cardinality({i \in Tasks : pc[i] = "fetching" /\ entries[i].name = name})
    + (IF side.pc = "fetching" /\ side.name = name THEN 1 ELSE 0)

\* The request goes out: client.get(url) is awaited
IssueRequest(name) ==
    /\ requests' = [requests EXCEPT ![name] = @ + 1]
    /\ overlaps' = [overlaps EXCEPT ![name] = @ + (IF InFlight(name) > 0 THEN 1 ELSE 0)]

\* The response arrives: the cache and the history after it
Received(name, response) ==
    /\ cache' = IF response = "200" THEN CacheStore(cache, name, registry[name]) ELSE cache
    /\ failed' = [failed EXCEPT ![name] = @ + (IF response = "200" THEN 0 ELSE 1)]

(***************************************************************************)
(* asyncio.Semaphore                                                        *)
(***************************************************************************)
\* A semaphore that never blocks
NeverLocked(value, waiters) == FALSE
\* Semaphore.locked()
locked(value, waiters) == value = 0 \/ waiters # <<>>


\* A release that gives the slot to a waiter or to nobody
ReleaseValueLost(value, waiters) == value

\* Semaphore.release(): the slot goes to the first waiter, or back to the counter
ReleaseValue(value, waiters) == IF waiters # <<>> THEN value ELSE value + 1
ReleaseWaiters(waiters) == IF waiters # <<>> THEN Tail(waiters) ELSE waiters

(***************************************************************************)
(* asyncio.gather over the tasks, return_exceptions=False                   *)
(***************************************************************************)
Pending == [state |-> "pending", value |-> <<>>]

\* The results in the order the tasks finished
ResultsByCompletion(outs, order) == [k \in 1..Len(order) |-> outs[order[k]]]
\* The results in the order of the tasks
ResultsByTask(outs, order) == [k \in 1..Len(order) |-> outs[k]]

\* gather with return_exceptions=True: exceptions are collected like results
GatherReturnExceptions(g, outs, order, i, out) ==
    IF g.state # "pending" THEN g
    ELSE IF Len(order) = Len(entries)
    THEN [state |-> "returned", value |-> ResultsByTask(outs, order)]
    ELSE g

\* gather's _done_callback for task i, which ended in out
GatherDone(g, outs, order, i, out) ==
    IF g.state # "pending" THEN g
    ELSE IF IsRaised(out) THEN [state |-> "raised", value |-> <<out>>]
    ELSE IF Len(order) = Len(entries)
    THEN [state |-> "returned", value |-> ResultsByTask(outs, order)]
    ELSE g

\* A gather that cancels the tasks still running when one fails
SiblingsCancelled(p, g, i, out) ==
    [j \in DOMAIN p |->
        IF j # i /\ p[j] # "done" /\ g.state = "pending" /\ IsRaised(out)
        THEN "cancelled" ELSE p[j]]
\* gather leaves the other tasks alone
SiblingsKept(p, g, i, out) == p

(***************************************************************************)
(* PythonResolver.resolve_entry as the steps of its task. A step runs from  *)
(* one await that suspends to the next: acquire() suspends only when the    *)
(* semaphore is locked, _fetch_package_metadata only at client.get.         *)
(***************************************************************************)
\* The task ends in out (a result or an exception): "async with" releases the
\* semaphore, the task is done and gather's callback sees it
Finish(i, out, held) ==
    LET outs == [outcome EXCEPT ![i] = out]
        order == Append(completion, i)
        done == [pc EXCEPT ![i] = "done"]
        woken == IF sem_waiters # <<>>
                 THEN [done EXCEPT ![Head(sem_waiters)] = "granted"]
                 ELSE done
    IN  /\ outcome' = outs
        /\ completion' = order
        /\ sem_value' = ReleaseValue(held, sem_waiters)
        /\ sem_waiters' = ReleaseWaiters(sem_waiters)
        /\ pc' = SiblingsKept(woken, gather, i, out)
        /\ gather' = GatherDone(gather, outs, order, i, out)
        /\ late' = IF gather.state = "raised" THEN late \cup {i} ELSE late

\* The body under "async with self._semaphore", up to the first suspension
Enter(i, held) ==
    LET name == entries[i].name IN
    IF InCache(cache, name)
    THEN /\ Finish(i, ResolveWithMetadata(python_version, entries[i], cache[name]), held)
         /\ UNCHANGED <<cache, requests, failed, overlaps>>
    ELSE /\ pc' = [pc EXCEPT ![i] = "fetching"]
         /\ sem_value' = held
         /\ IssueRequest(name)
         /\ UNCHANGED <<cache, failed, sem_waiters, outcome, gather, completion, late>>

\* The event loop runs the tasks gather created in their order, all of them
\* before it looks at any I/O
AllStarted == \A j \in Tasks : pc[j] # "created"
NoneStarted == \A j \in Tasks : pc[j] = "created"

\* The first step of task i: acquire the semaphore or queue for it
Run(i) ==
    /\ pc[i] = "created"
    /\ \A j \in 1..(i - 1) : pc[j] # "created"
    /\ IF locked(sem_value, sem_waiters)
       THEN /\ pc' = [pc EXCEPT ![i] = "waiting"]
            /\ sem_waiters' = Append(sem_waiters, i)
            /\ UNCHANGED <<cache, sem_value, outcome, gather, requests, failed,
                           overlaps, completion, late>>
       ELSE Enter(i, sem_value - 1)
    /\ UNCHANGED <<config, side, answer>>
    /\ UNCHANGED apps

\* Task i, handed the slot by a release, goes on
Continue(i) ==
    /\ pc[i] = "granted"
    /\ Enter(i, sem_value)
    /\ UNCHANGED <<config, side, answer>>
    /\ UNCHANGED apps

\* client.get of task i ends: the rest of resolve_entry runs without suspending
Response(i, response) ==
    /\ pc[i] = "fetching"
    /\ AllStarted
    /\ response \in Responses(entries[i].name)
    /\ Received(entries[i].name, response)
    /\ LET fetched == FetchResult(entries[i].name, response) IN
       Finish(i, IF IsRaised(fetched) THEN fetched
                 ELSE ResolveWithMetadata(python_version, entries[i], fetched),
              sem_value)
    /\ answer' = [answer EXCEPT ![i] = response]
    /\ UNCHANGED <<config, side, requests, overlaps>>
    /\ UNCHANGED apps

(***************************************************************************)
(* PythonResolver.get_latest_version, called once beside the batch; it does *)
(* not take the semaphore                                                   *)
(***************************************************************************)
get_latest_version(name) ==
    /\ side.pc = "idle"
    /\ AllStarted \/ NoneStarted
    /\ IF InCache(cache, name)
       THEN /\ side' = [pc |-> "done", name |-> name,
                        out |-> LatestWithMetadata(name, cache[name])]
            /\ UNCHANGED <<requests, overlaps>>
       ELSE /\ side' = [pc |-> "fetching", name |-> name, out |-> Nothing]
            /\ IssueRequest(name)
    /\ UNCHANGED <<config, cache, sem_value, sem_waiters, pc, outcome, gather,
                   failed, completion, late, answer>>
    /\ UNCHANGED apps

SideResponse(response) ==
    /\ side.pc = "fetching"
    /\ AllStarted \/ NoneStarted
    /\ response \in Responses(side.name)
    /\ Received(side.name, response)
    /\ LET fetched == FetchResult(side.name, response) IN
       side' = [pc |-> "done", name |-> side.name,
                out |-> IF IsRaised(fetched) THEN fetched
                        ELSE LatestWithMetadata(side.name, fetched)]
    /\ UNCHANGED <<config, sem_value, sem_waiters, pc, outcome, gather,
                   requests, overlaps, completion, late, answer>>
    /\ UNCHANGED apps

(***************************************************************************)
(* The batch specification: a few entries over a small registry, every      *)
(* max_concurrency from 0 on                                                *)
(***************************************************************************)
V100 == VStr("", <<1, 0, 0>>, 0)
V120 == VStr("", <<1, 2, 0>>, 0)
V200 == VStr("", <<2, 0, 0>>, 0)

SmallRegistry ==
    [n \in Names |->
        CASE n = "a" -> Metadata(V120, <<Release(V100, <<>>), Release(V120, <<>>)>>)
          [] n = "b" -> Metadata(NoInfo, <<Release(V200, <<>>)>>)
          [] OTHER -> Metadata(V100, <<Release(V100, <<>>)>>)]

SmallEntries == {ManifestEntry(n, NoSpec, "", <<>>) : n \in Names}

SeqsUpTo(S, n) == UNION {[1..k -> S] : k \in 0..n}

\* No file, no command, no request
Absent == [kind |-> "absent"]
Paths == {"requirements.txt", "missing.txt", "out.txt"}
NoProcess == [pc |-> "none"]
NoRequest == [pc |-> "none"]

\* The resolver after the constructor and the call of resolve_entries(es)
Resolver(pyver, mc, reg, es, fails) ==
    /\ python_version = pyver
    /\ max_concurrency = mc
    /\ cache = [n \in {} |-> NoneMetadata]
    /\ sem_value = mc
    /\ sem_waiters = <<>>
    /\ registry = reg
    /\ entries = es
    /\ pc = [i \in 1..Len(es) |-> "created"]
    /\ outcome = [i \in 1..Len(es) |-> Nothing]
    /\ gather = IF Len(es) = 0 THEN [state |-> "returned", value |-> <<>>] ELSE Pending
    /\ failures = fails
    /\ side = Idle
    /\ requests = [n \in Names |-> 0]
    /\ failed = [n \in Names |-> 0]
    /\ overlaps = [n \in Names |-> 0]
    /\ completion = <<>>
    /\ late = {}
    /\ answer = [i \in 1..Len(es) |-> "none"]

\* The state after the constructor and the call of resolve_entries(es), made
\* by a caller that is neither application
Constructed(pyver, mc, reg, es, fails) ==
    /\ Resolver(pyver, mc, reg, es, fails)
    /\ fs = [p \in Paths |-> Absent]
    /\ proc = NoProcess
    /\ web = NoRequest

Init ==
    \E mc \in 0..MaxConcurrencyBound, es \in SeqsUpTo(SmallEntries, MaxEntries) :
        Constructed(PyUnset, mc, SmallRegistry, es, {"timeout"})

Next ==
    \/ \E i \in Tasks : Run(i)
    \/ \E i \in Tasks : Continue(i)
    \/ \E i \in Tasks, r \in {"200", "404", "timeout", "status", "network"} : Response(i, r)
    \/ \E n \in Names : get_latest_version(n)
    \/ \E r \in {"200", "404", "timeout", "status", "network"} : SideResponse(r)

Spec == Init /\ [][Next]_vars

(***************************************************************************)
(* The single-entry specification: resolve_entries(<<entry>>) on a resolver *)
(* with the default max_concurrency, over every metadata, specifier and     *)
(* target runtime of a small universe                                       *)
(***************************************************************************)
V10 == VStr("", <<1, 0>>, 0)
V1100 == VStr("", <<1, 10, 0>>, 0)
V200a1 == VStr("", <<2, 0, 0>>, 1)
Vv200 == VStr("v", <<2, 0, 0>>, 0)
V300 == VStr("", <<3, 0, 0>>, 0)
Py311 == Py(VStr("", <<3, 11>>, 0))

ReleaseKeys == {V10, V100, V120, V1100, V200a1, Vv200, BadVStr}

\* Per release: no file at all, or one file that needs Python 3.12
FileLists ==
    {<<>>, <<File(TRUE, SetSpec(<<Clause(">=", VStr("", <<3, 12>>, 0))>>))>>}

\* The dicts of at most MaxReleases releases: distinct keys, in every order
ReleaseDicts ==
    {rs \in SeqsUpTo([ver : ReleaseKeys, files : FileLists], MaxReleases) :
        \A i, j \in 1..Len(rs) : i # j => rs[i].ver # rs[j].ver}

Specs ==
    {NoSpec, EmptySpec, JunkSpec, BareSpec(V120),
     SetSpec(<<Clause("==", V100)>>), SetSpec(<<Clause("==", V120)>>),
     SetSpec(<<Clause("==", V200a1)>>), SetSpec(<<Clause("==", V300)>>),
     SetSpec(<<Clause("==", BadVStr)>>), SetSpec(<<Clause(">=", V120)>>),
     SetSpec(<<Clause(">=", V10), Clause("<", V1100)>>),
     SetSpec(<<Clause("<", V10)>>)}

InitResolve ==
    \E pyver \in {PyUnset, Py311}, rs \in ReleaseDicts, sp \in Specs :
        Constructed(pyver, DefaultMaxConcurrency,
                    [n \in Names |-> IF n = "a" THEN Metadata(NoInfo, rs) ELSE NoneMetadata],
                    <<ManifestEntry("a", sp, "", <<>>)>>,
                    {"timeout", "status", "network"})

NextResolve ==
    \/ \E i \in Tasks : Run(i)
    \/ \E i \in Tasks, r \in {"200", "404", "timeout", "status", "network"} : Response(i, r)

SpecResolve == InitResolve /\ [][NextResolve]_vars

(***************************************************************************)
(* The filter specification: resolve_entries(<<entry>>) over releases whose *)
(* file lists mix every kind of requires_python, for an unset, a well       *)
(* formed and a malformed target runtime                                    *)
(***************************************************************************)
MaxFiles == 2

Py38Up == SetSpec(<<Clause(">=", VStr("", <<3, 8>>, 0))>>)
Py312Up == SetSpec(<<Clause(">=", VStr("", <<3, 12>>, 0))>>)
PyMalformed == Py(BadVStr)

\* A file without the key, with a null value, with an expression that does
\* not parse, with one that 3.11 satisfies and with one that it does not
FilterFiles ==
    {File(FALSE, NoSpec), File(TRUE, NoSpec), File(TRUE, JunkSpec),
     File(TRUE, Py38Up), File(TRUE, Py312Up)}

FilterKeys == {V100, V120}

FilterDicts ==
    {rs \in SeqsUpTo([ver : FilterKeys, files : SeqsUpTo(FilterFiles, MaxFiles)],
                     Cardinality(FilterKeys)) :
        \A i, j \in 1..Len(rs) : i # j => rs[i].ver # rs[j].ver}

FilterSpecs ==
    {NoSpec, SetSpec(<<Clause(">=", V100)>>), SetSpec(<<Clause("==", V120)>>)}

InitFilter ==
    \E pyver \in {PyUnset, Py311, PyMalformed}, rs \in FilterDicts, sp \in FilterSpecs :
        Constructed(pyver, DefaultMaxConcurrency,
                    [n \in Names |-> IF n = "a" THEN Metadata(NoInfo, rs) ELSE NoneMetadata],
                    <<ManifestEntry("a", sp, "", <<>>)>>,
                    {"timeout"})

SpecFilter == InitFilter /\ [][NextResolve]_vars

(***************************************************************************)
(* The delta specification: resolve_entries(<<entry>>) for a package with   *)
(* one release, so that every specifier meets every chosen version          *)
(***************************************************************************)
V2 == VStr("", <<2>>, 0)
V101 == VStr("", <<1, 0, 1>>, 0)
V1001 == VStr("", <<1, 0, 0, 1>>, 0)
V213 == VStr("", <<2, 1, 3>>, 0)

DeltaVersions == {V2, V10, V100, V101, V1001, V120, V1100, V200a1, Vv200, V213, V300}

\* Per version text: the pin, the bare text, the comparisons and a pin with
\* a second clause
DeltaSpecs ==
    {NoSpec, EmptySpec, JunkSpec}
    \cup {SetSpec(<<Clause(op, v)>>) : op \in Operators, v \in DeltaVersions \cup {BadVStr}}
    \cup {BareSpec(v) : v \in DeltaVersions}
    \cup {SetSpec(<<Clause("==", v), Clause("<", V300)>>) : v \in DeltaVersions}

InitDelta ==
    \E v \in DeltaVersions, sp \in DeltaSpecs :
        Constructed(PyUnset, DefaultMaxConcurrency,
                    [n \in Names |-> IF n = "a" THEN Metadata(NoInfo, <<Release(v, <<>>)>>)
                                     ELSE NoneMetadata],
                    <<ManifestEntry("a", sp, "", <<>>)>>,
                    {"timeout"})

SpecDelta == InitDelta /\ [][NextResolve]_vars

(***************************************************************************)
(* The fetch specification: a batch over a registry that lacks some of the  *)
(* packages, on a network that fails in every way, with the default         *)
(* max_concurrency                                                          *)
(***************************************************************************)
FetchRegistry ==
    [n \in Names |->
        IF n = "a" THEN Metadata(V100, <<Release(V100, <<>>)>>) ELSE NoneMetadata]

InitFetch ==
    \E es \in SeqsUpTo(SmallEntries, MaxEntries) :
        Constructed(PyUnset, DefaultMaxConcurrency, FetchRegistry, es,
                    {"timeout", "status", "network"})

SpecFetch == InitFetch /\ [][NextResolve]_vars

(***************************************************************************)
(* The timeout specification: a batch over a registry that never answers    *)
(* for some packages, with at least one slot in the limiter. The event loop *)
(* runs every task that is ready, and every request ends: with the          *)
(* registry's answer, or when the client's timeout expires.                 *)
(***************************************************************************)
LiveRegistry ==
    [n \in Names |->
        CASE n = "a" -> Metadata(V100, <<Release(V100, <<>>)>>)
          [] n = "b" -> NoAnswer
          [] OTHER -> NoneMetadata]

InitLive ==
    \E mc \in 1..MaxConcurrencyBound, es \in SeqsUpTo(SmallEntries, MaxEntries) :
        Constructed(PyUnset, mc, LiveRegistry, es, {})

NextLive ==
    \/ \E i \in Tasks : Run(i)
    \/ \E i \in Tasks : Continue(i)
    \/ \E i \in Tasks, r \in {"200", "404", "timeout"} : Response(i, r)

Fairness ==
    \A i \in 1..MaxEntries :
        /\ WF_vars(i \in Tasks /\ Run(i))
        /\ WF_vars(i \in Tasks /\ Continue(i))
        /\ WF_vars(i \in Tasks /\ \E r \in {"200", "404", "timeout"} : Response(i, r))

SpecLive == InitLive /\ [][NextLive]_vars /\ Fairness


(***************************************************************************)
(* The markers specification: resolve_entries(<<entry>>) for entries with   *)
(* environment markers and extras                                           *)
(***************************************************************************)
CarryMarkers == {"", "sys_platform != 'win32'", "python_version >= '3.12'"}
CarryExtras == {<<>>, <<"security">>, <<"socks", "security">>}
CarrySpecs ==
    {NoSpec, JunkSpec, SetSpec(<<Clause(">=", V120)>>), SetSpec(<<Clause("==", V100)>>)}
CarryReleases ==
    {<<>>,
     <<Release(V120, <<>>)>>,
     <<Release(V100, <<>>), Release(V1100, <<>>), Release(V120, <<File(TRUE, Py312Up)>>)>>}

InitCarry ==
    \E pyver \in {PyUnset, Py311}, rs \in CarryReleases, sp \in CarrySpecs,
       mk \in CarryMarkers, ex \in CarryExtras :
        Constructed(pyver, DefaultMaxConcurrency,
                    [n \in Names |-> IF n = "a" THEN Metadata(NoInfo, rs) ELSE NoneMetadata],
                    <<ManifestEntry("a", sp, mk, ex)>>,
                    {"timeout"})

SpecCarry == InitCarry /\ [][NextResolve]_vars


(***************************************************************************)
(* Manifest text. A content is the sequence of its lines (splitlines); a    *)
(* line is blank, a comment, a requirement or a line of JSON. A text is a   *)
(* sequence of segments, so that one name can be the beginning of another.  *)
(***************************************************************************)
MaxLines == 2

\* How the packages of the registry are written
PackageText ==
    [n \in Names |->
        CASE n = "a" -> <<"requests">>
          [] n = "b" -> <<"requests", "-oauthlib">>
          [] OTHER -> <<"flask">>]

NoComment == [has |-> FALSE, pad |-> 0, text |-> ""]
\* "# text" after the requirement, pad spaces between "#" and the text
Comment(pad, text) == [has |-> TRUE, pad |-> pad, text |-> text]

BlankLine ==
    [kind |-> "blank", name |-> "", spec |-> NoSpec, markers |-> "", comment |-> NoComment]
CommentLine(text) ==
    [kind |-> "comment", name |-> "", spec |-> NoSpec, markers |-> "",
     comment |-> Comment(1, text)]
JsonLine ==
    [kind |-> "json", name |-> "", spec |-> NoSpec, markers |-> "", comment |-> NoComment]
\* name, specifier as written, "; markers", "  # comment"
RequirementLine(name, spec, markers, comment) ==
    [kind |-> "req", name |-> name, spec |-> spec, markers |-> markers, comment |-> comment]

\* line.strip() as segments: the name's, then one for what follows it
LineText(line) ==
    CASE line.kind = "blank" -> <<>>
      [] line.kind = "comment" -> <<"#", line.comment.text>>
      [] line.kind = "json" -> <<"\"dependencies\": {">>
      [] OTHER -> PackageText[line.name]
                  \o (IF Truthy(line.spec) THEN <<"specifier">> ELSE <<>>)
                  \o (IF line.markers # "" THEN <<";", line.markers>> ELSE <<>>)
                  \o (IF line.comment.has THEN <<"#", line.comment.text>> ELSE <<>>)

\* str.startswith
startswith(text, prefix) ==
    /\ Len(prefix) <= Len(text)
    /\ SubSeq(text, 1, Len(prefix)) = prefix

(***************************************************************************)
(* core/parse_python.py                                                     *)
(***************************************************************************)
\* The place of an operator among the sorted clause texts (ASCII order)
OpRank(op) ==
    CASE op = "!=" -> 1 [] op = "<" -> 2 [] op = "<=" -> 3
      [] op = "==" -> 4 [] op = ">" -> 5 [] OTHER -> 6

RECURSIVE Insert(_, _)
Insert(sorted, c) ==
    IF sorted = <<>> THEN <<c>>
    ELSE IF OpRank(c.op) < OpRank(Head(sorted).op) THEN <<c>> \o sorted
    ELSE <<Head(sorted)>> \o Insert(Tail(sorted), c)

RECURSIVE SortedClauses(_)
SortedClauses(clauses) ==
    IF clauses = <<>> THEN <<>>
    ELSE Insert(SortedClauses(SubSeq(clauses, 1, Len(clauses) - 1)), clauses[Len(clauses)])

\* str(req.specifier) if req.specifier else None: the clauses, sorted by text
SpecifierStr(spec) ==
    IF spec.kind = "set" /\ spec.clauses # <<>>
    THEN SetSpec(SortedClauses(spec.clauses))
    ELSE NoSpec

\* RequirementsParser._should_skip_line
_should_skip_line(line) == line.kind \in {"blank", "comment"}

\* Requirement(text) succeeds (InvalidRequirement raised otherwise)
RequirementOk(line) ==
    /\ line.kind = "req"
    /\ ~Truthy(line.spec) \/ SpecifierSetOk(line.spec)

\* RequirementsParser._parse_requirement_line: the entries of one line
_parse_requirement_line(line) ==
    IF RequirementOk(line)
    THEN <<ManifestEntry(line.name, SpecifierStr(line.spec), line.markers, <<>>)>>
    ELSE <<>>

RECURSIVE ParseFrom(_, _)
ParseFrom(lines, k) ==
    IF k > Len(lines) THEN <<>>
    ELSE (IF _should_skip_line(lines[k]) THEN <<>> ELSE _parse_requirement_line(lines[k]))
         \o ParseFrom(lines, k + 1)

\* parse_requirements(content).entries
parse_requirements(content) == ParseFrom(content, 1)

(***************************************************************************)
(* core/detect.py                                                           *)
(***************************************************************************)
NoFilename == ""

\* One of the python patterns matches the line: "name>=1.0", or "; marker"
PythonPattern(line) ==
    line.kind = "req" /\ (line.spec.kind = "set" \/ line.markers # "")

identify(content, filename) ==
    IF filename = "requirements.txt" THEN "python"
    ELSE IF filename = "package.json" THEN "node"
    ELSE IF \E k \in 1..Len(content) : PythonPattern(content[k]) THEN "python"
    ELSE IF \E k \in 1..Len(content) : content[k].kind = "json" THEN "node"
    ELSE "unknown"


(***************************************************************************)
(* Change detection: has_changes of apps/cli/main.py, _entry_has_change and *)
(* _has_changes of apps/web/main.py                                         *)
(***************************************************************************)
\* spec.startswith((">=", "<=", ">", "<", "~=", "!="))
StartsWithRange(spec) ==
    spec.kind = "set" /\ spec.clauses[1].op \in {">=", "<=", ">", "<", "~=", "!="}

NoCurrent == [some |-> FALSE, text |-> BadVStr]

\* current_version: the text after "==", or the whole text of a specifier that
\* starts with no operator; None otherwise
CurrentVersion(spec) ==
    IF StartsWithEqEq(spec) THEN [some |-> TRUE, text |-> AfterEqEq(spec)]
    ELSE IF ~StartsWithRange(spec)
    THEN [some |-> TRUE,
          text |-> IF spec.kind = "bare" THEN spec.clauses[1].ver ELSE BadVStr]
    ELSE NoCurrent

\* The test that compares versions, not their texts
SameVersionNoChange(result) ==
    IF ~Truthy(result.entry.spec) THEN TRUE
    ELSE LET current_version == CurrentVersion(result.entry.spec) IN
         IF ~current_version.some THEN TRUE
         ELSE IF ~current_version.text.ok THEN TRUE
         ELSE ~VersionEq(Version(current_version.text), Version(result.chosen_version))

\* apps/web/main.py
_entry_has_change(result) ==
    IF ~Truthy(result.entry.spec) THEN TRUE
    ELSE LET current_version == CurrentVersion(result.entry.spec) IN
         IF current_version.some /\ current_version.text # result.chosen_version THEN TRUE
         ELSE IF ~current_version.some THEN TRUE
         ELSE FALSE

\* apps/web/main.py: any(_entry_has_change(result) for result in results)
_has_changes(results) == \E k \in 1..Len(results) : _entry_has_change(results[k])

\* The loop that answers for the first result alone
HasChangesFirst(results, k) ==
    IF k > Len(results) THEN FALSE
    ELSE IF Truthy(results[k].entry.spec)
    THEN LET current_version == CurrentVersion(results[k].entry.spec) IN
         IF current_version.some /\ current_version.text # results[k].chosen_version
         THEN TRUE
         ELSE IF ~current_version.some THEN TRUE
         ELSE FALSE
    ELSE TRUE


\* The loop that finds a change in every result
HasChangesAlways(results, k) == k <= Len(results)

RECURSIVE HasChangesFrom(_, _)
\* apps/cli/main.py: the loop of has_changes from its k-th result on
HasChangesFrom(results, k) ==
    IF k > Len(results) THEN FALSE
    ELSE IF Truthy(results[k].entry.spec)
    THEN LET current_version == CurrentVersion(results[k].entry.spec) IN
         IF current_version.some /\ current_version.text # results[k].chosen_version
         THEN TRUE
         ELSE IF ~current_version.some THEN TRUE
         ELSE HasChangesFrom(results, k + 1)
    ELSE TRUE

has_changes(results) == HasChangesFrom(results, 1)

(***************************************************************************)
(* Output: format_json_output, format_diff_output, update_manifest_content  *)
(* of apps/cli/main.py and _update_content of apps/web/main.py              *)
(***************************************************************************)
format_json_output(results) ==
    [format |-> "json",
     reports |-> [k \in 1..Len(results) |->
                    [name |-> results[k].entry.name,
                     current_version |-> results[k].entry.spec,
                     chosen_version |-> results[k].chosen_version,
                     reason |-> results[k].reason,
                     semver_delta |-> results[k].semver_delta]]]

\* name==chosen_version
Pinned(result) ==
    RequirementLine(result.entry.name, SetSpec(<<Clause("==", result.chosen_version)>>),
                    "", NoComment)

\* name, followed by the specifier if there is one
OldLine(result) ==
    RequirementLine(result.entry.name,
                    IF Truthy(result.entry.spec) THEN result.entry.spec ELSE NoSpec,
                    "", NoComment)

RECURSIVE DiffFrom(_, _)
DiffFrom(results, k) ==
    IF k > Len(results) THEN <<>>
    ELSE (IF OldLine(results[k]) # Pinned(results[k])
          THEN <<[old |-> OldLine(results[k]), new |-> Pinned(results[k])]>>
          ELSE <<>>)
         \o DiffFrom(results, k + 1)

format_diff_output(content, results, file_path) ==
    [format |-> "diff", path |-> file_path, changes |-> DiffFrom(results, 1)]

RECURSIVE ResolvedKeysFrom(_, _)
\* The keys of the dict "resolved", in the order of their insertion
ResolvedKeysFrom(results, k) ==
    IF k > Len(results) THEN <<>>
    ELSE (IF \E j \in 1..(k - 1) : results[j].entry.name = results[k].entry.name
          THEN <<>> ELSE <<results[k].entry.name>>)
         \o ResolvedKeysFrom(results, k + 1)

\* resolved[name]: the last result of that name
Resolved(results, name) ==
    LET last == CHOOSE k \in 1..Len(results) :
                    /\ results[k].entry.name = name
                    /\ \A j \in (k + 1)..Len(results) : results[j].entry.name # name
    IN  results[last]

RECURSIVE MatchFrom(_, _, _)
\* The loop "for name in resolved": the first key the line starts with, or ""
MatchFrom(line, keys, k) ==
    IF k > Len(keys) THEN ""
    ELSE IF startswith(LineText(line), PackageText[keys[k]]) THEN keys[k]
    ELSE MatchFrom(line, keys, k + 1)

\* The new line: name==chosen_version, and the line's comment after "  # "
NewLine(result, line) ==
    RequirementLine(result.entry.name, SetSpec(<<Clause("==", result.chosen_version)>>), "",
                    IF line.comment.has
                    THEN Comment(line.comment.pad + 1, line.comment.text)
                    ELSE NoComment)

\* One line of update_manifest_content
UpdatedLine(line, results) ==
    IF line.kind \in {"blank", "comment"} THEN line
    ELSE LET package_name == MatchFrom(line, ResolvedKeysFrom(results, 1), 1) IN
         IF package_name # "" THEN NewLine(Resolved(results, package_name), line)
         ELSE line

update_manifest_content(content, results) ==
    [format |-> "manifest",
     lines |-> [k \in 1..Len(content) |-> UpdatedLine(content[k], results)]]

\* One line of _update_content
_UpdatedLine(line, results) ==
    IF line.kind \in {"blank", "comment"} THEN line
    ELSE LET package_name == MatchFrom(line, ResolvedKeysFrom(results, 1), 1) IN
         IF package_name # "" /\ _entry_has_change(Resolved(results, package_name))
         THEN NewLine(Resolved(results, package_name), line)
         ELSE line

_update_content(content, results) ==
    [k \in 1..Len(content) |-> _UpdatedLine(content[k], results)]


(***************************************************************************)
(* apps/cli/main.py: the update command. It suspends once, in asyncio.run,  *)
(* while the tasks of resolve_entries run: "update" is the command up to    *)
(* there, "update_output" the rest.                                         *)
(***************************************************************************)
\* The text of a manifest file
Text(lines) == [format |-> "manifest", lines |-> lines]

\* The variables of the resolver that a new PythonResolver sets
Construct(es) ==
    /\ max_concurrency' = DefaultMaxConcurrency
    /\ cache' = [n \in {} |-> NoneMetadata]
    /\ sem_value' = DefaultMaxConcurrency
    /\ sem_waiters' = <<>>
    /\ entries' = es
    /\ pc' = [i \in 1..Len(es) |-> "created"]
    /\ outcome' = [i \in 1..Len(es) |-> Nothing]
    /\ gather' = Pending
    /\ side' = Idle
    /\ requests' = [n \in Names |-> 0]
    /\ failed' = [n \in Names |-> 0]
    /\ overlaps' = [n \in Names |-> 0]
    /\ completion' = <<>>
    /\ late' = {}
    /\ answer' = [i \in 1..Len(es) |-> "none"]
    /\ UNCHANGED <<python_version, registry, failures>>

\* typer.Exit(code), after console.print(item)
Exit(p, code, item) ==
    [p EXCEPT !.pc = "exited", !.code = code, !.printed = Append(@, item)]

Message(text) == [kind |-> "message", text |-> text]
Error(text) == [kind |-> "error", text |-> text]
Output(output_content) == [kind |-> "output", content |-> output_content]

update ==
    /\ proc.pc = "start"
    /\ LET argv == proc.argv
           missing == argv.file_path # "-" /\ fs[argv.file_path] = Absent
           content == IF argv.file_path = "-" THEN proc.stdin
                      ELSE fs[argv.file_path].lines
           ecosystem == IF argv.engine # "" THEN argv.engine
                        ELSE identify(content, IF argv.file_path # "-"
                                               THEN argv.file_path ELSE NoFilename)
           es == parse_requirements(content)
       IN  IF missing
           THEN /\ proc' = Exit(proc, 1, Error("File not found"))
                /\ UNCHANGED <<config, cache, sem_value, sem_waiters, pc, outcome, gather,
                               side, requests, failed, overlaps, completion, late, answer>>
           ELSE IF ecosystem # "python"
           THEN /\ proc' = Exit([proc EXCEPT !.content = content], 1,
                                Error("Unsupported ecosystem"))
                /\ UNCHANGED <<config, cache, sem_value, sem_waiters, pc, outcome, gather,
                               side, requests, failed, overlaps, completion, late, answer>>
           ELSE IF es = <<>>
           THEN /\ proc' = Exit([proc EXCEPT !.content = content], 0,
                                Message("No dependencies found to update"))
                /\ UNCHANGED <<config, cache, sem_value, sem_waiters, pc, outcome, gather,
                               side, requests, failed, overlaps, completion, late, answer>>
           ELSE /\ proc' = [proc EXCEPT !.pc = "resolving", !.content = content]
                /\ Construct(es)
    /\ UNCHANGED <<fs, web>>

\* A command that looks at --in-place and --out before --dry-run
DestinationWriteFirst(argv) ==
    IF argv.in_place /\ argv.file_path # "-" THEN [to |-> "file", path |-> argv.file_path]
    ELSE IF argv.output # ""
    THEN (IF argv.output = "-" THEN [to |-> "stdout", path |-> ""]
          ELSE [to |-> "file", path |-> argv.output])
    ELSE IF argv.dry_run THEN [to |-> "stdout", path |-> ""]
    ELSE IF argv.file_path = "-" THEN [to |-> "stdout", path |-> ""]
    ELSE [to |-> "nowhere", path |-> ""]

\* Where the output goes: the chain of tests under "Write output"
Destination(argv) ==
    IF argv.dry_run THEN [to |-> "stdout", path |-> ""]
    ELSE IF argv.in_place /\ argv.file_path # "-"
    THEN [to |-> "file", path |-> argv.file_path]
    ELSE IF argv.output # ""
    THEN (IF argv.output = "-" THEN [to |-> "stdout", path |-> ""]
          ELSE [to |-> "file", path |-> argv.output])
    ELSE IF argv.file_path = "-" THEN [to |-> "stdout", path |-> ""]
    ELSE [to |-> "nowhere", path |-> ""]

\* raise typer.Exit(2)
NoChangesCode == 2

\* asyncio.run cancels the tasks that are left when its coroutine has ended
Cancelled(p) == [i \in DOMAIN p |-> IF p[i] = "done" THEN "done" ELSE "cancelled"]

update_output ==
    /\ proc.pc = "resolving"
    /\ gather.state # "pending"
    /\ pc' = Cancelled(pc)
    /\ LET argv == proc.argv
           results == gather.value
           display_path == IF argv.file_path = "-" THEN "<stdin>" ELSE argv.file_path
           output_content ==
               IF argv.format_type = "json" THEN format_json_output(results)
               ELSE IF argv.dry_run
               THEN format_diff_output(proc.content, results, display_path)
               ELSE update_manifest_content(proc.content, results)
           destination == Destination(argv)
       IN  IF gather.state = "raised"
           THEN /\ proc' = Exit(proc, 1, Error(gather.value[1].msg))
                /\ fs' = fs
           ELSE IF ~has_changes(results)
           THEN /\ proc' = Exit(proc, NoChangesCode,
                                IF argv.format_type = "json"
                                THEN Output(format_json_output(results))
                                ELSE Message("No updates available"))
                /\ fs' = fs
           ELSE IF destination.to = "stdout"
           THEN /\ proc' = Exit(proc, 0, Output(output_content))
                /\ fs' = fs
           ELSE IF destination.to = "file"
           THEN /\ proc' = Exit(proc, 0, Message("Updated"))
                /\ fs' = [fs EXCEPT ![destination.path] = output_content]
           ELSE /\ proc' = Exit(proc, 1, Error("Specify --in-place, --out, or --dry-run"))
                /\ fs' = fs
    /\ UNCHANGED <<config, cache, sem_value, sem_waiters, outcome, gather, side,
                   requests, failed, overlaps, completion, late, answer, web>>

(***************************************************************************)
(* apps/web/main.py: POST /api/update. "update_dependencies" is the handler *)
(* up to "await resolver.resolve_entries", "update_dependencies_response"   *)
(* the rest.                                                                *)
(***************************************************************************)
RECURSIVE lstrip(_)
lstrip(lines) ==
    IF lines # <<>> /\ Head(lines).kind = "blank" THEN lstrip(Tail(lines)) ELSE lines

RECURSIVE rstrip(_)
rstrip(lines) ==
    IF lines # <<>> /\ lines[Len(lines)].kind = "blank"
    THEN rstrip(SubSeq(lines, 1, Len(lines) - 1)) ELSE lines

\* request.content.strip(): the blank lines at both ends go
strip(lines) == rstrip(lstrip(lines))

\* HTTPException(status_code, detail)
HTTPException(w, status_code, detail) ==
    [w EXCEPT !.pc = "responded",
              !.response = [status |-> status_code, detail |-> detail]]

update_dependencies ==
    /\ web.pc = "start"
    /\ LET content == strip(web.request.content)
           ecosystem == IF web.request.ecosystem # "" THEN web.request.ecosystem
                        ELSE identify(content, NoFilename)
           es == parse_requirements(content)
       IN  IF content = <<>> \/ ecosystem # "python" \/ es = <<>>
           THEN /\ web' = HTTPException(web, 400,
                              IF content = <<>> THEN "No content provided"
                              ELSE IF ecosystem # "python" THEN "Unsupported ecosystem"
                              ELSE "No dependencies found to update")
                /\ UNCHANGED <<config, cache, sem_value, sem_waiters, pc, outcome, gather,
                               side, requests, failed, overlaps, completion, late, answer>>
           ELSE /\ web' = [web EXCEPT !.pc = "resolving", !.content = content,
                                      !.ecosystem = ecosystem]
                /\ Construct(es)
    /\ UNCHANGED <<fs, proc>>

\* _update_content(content, results) if has_changes else content
UpdatedContent(content, results) ==
    IF _has_changes(results) THEN _update_content(content, results) ELSE content

update_dependencies_response ==
    /\ web.pc = "resolving"
    /\ gather.state # "pending"
    /\ IF gather.state = "raised"
       THEN web' = HTTPException(web, 500, "Error processing dependencies")
       ELSE LET results == gather.value IN
            web' = [web EXCEPT
                      !.pc = "responded",
                      !.response =
                         [status |-> 200,
                          original_content |-> web.content,
                          updated_content |-> UpdatedContent(web.content, results),
                          changes |-> [k \in 1..Len(results) |->
                                         [name |-> results[k].entry.name,
                                          current_version |-> results[k].entry.spec,
                                          new_version |-> results[k].chosen_version,
                                          reason |-> results[k].reason,
                                          semver_delta |-> results[k].semver_delta,
                                          has_change |-> _entry_has_change(results[k])]],
                          has_changes |-> _has_changes(results),
                          ecosystem |-> web.ecosystem]]
    /\ UNCHANGED <<config, cache, sem_value, sem_waiters, pc, outcome, gather, side,
                   requests, failed, overlaps, completion, late, answer, fs, proc>>

(***************************************************************************)
(* The change tests called on what resolve_entries returned, as the unit    *)
(* tests call them: with entries that no manifest was parsed into           *)
(***************************************************************************)
Caller == [pc |-> "caller"]

has_changes_called ==
    /\ proc.pc = "caller"
    /\ gather.state = "returned"
    /\ proc' = [pc |-> "called", has_changes |-> has_changes(gather.value)]
    /\ UNCHANGED <<config, cache, sem_value, sem_waiters, pc, outcome, gather, side,
                   requests, failed, overlaps, completion, late, answer, fs, web>>

_has_changes_called ==
    /\ web.pc = "caller"
    /\ gather.state = "returned"
    /\ web' = [pc |-> "called",
               has_changes |-> _has_changes(gather.value),
               has_change |-> [k \in 1..Len(gather.value) |->
                                 _entry_has_change(gather.value[k])]]
    /\ UNCHANGED <<config, cache, sem_value, sem_waiters, pc, outcome, gather, side,
                   requests, failed, overlaps, completion, late, answer, fs, proc>>

(***************************************************************************)
(* The applications specification: one run of the update command, one POST  *)
(* /api/update, over the manifests of at most MaxLines lines, or one call   *)
(* of the change tests on at most MaxLines results                          *)
(***************************************************************************)
V12 == VStr("", <<1, 2>>, 0)
Vv120 == VStr("v", <<1, 2, 0>>, 0)

ChangeEntries ==
    {ManifestEntry("a", sp, "", <<>>) :
        sp \in {NoSpec, EmptySpec, JunkSpec, BareSpec(V120), BareSpec(Vv120),
                SetSpec(<<Clause("==", V120)>>), SetSpec(<<Clause("==", V12)>>),
                SetSpec(<<Clause("==", V100)>>), SetSpec(<<Clause(">=", V100)>>),
                SetSpec(<<Clause("==", V120), Clause("<", V300)>>)}}
    \cup {ManifestEntry("b", sp, "", <<>>) :
             sp \in {BareSpec(V200), SetSpec(<<Clause("<=", V200)>>)}}

AppRegistry ==
    [n \in Names |->
        CASE n = "a" -> Metadata(V120, <<Release(V100, <<>>), Release(V120, <<>>)>>)
          [] n = "b" -> Metadata(V200, <<Release(V200, <<>>)>>)
          [] OTHER -> NoneMetadata]

Lines ==
    {BlankLine, CommentLine("pins"), JsonLine,
     RequirementLine("a", NoSpec, "", NoComment),
     RequirementLine("a", SetSpec(<<Clause("==", V120)>>), "", Comment(1, "web")),
     RequirementLine("b", SetSpec(<<Clause("==", V200)>>), "", NoComment),
     RequirementLine("b", SetSpec(<<Clause(">=", V100), Clause("<", V300)>>), "", NoComment),
     RequirementLine("c", SetSpec(<<Clause("==", V100)>>), "", NoComment)}

Contents == SeqsUpTo(Lines, MaxLines)

\* What out.txt holds before the command runs
Earlier == Text(<<CommentLine("earlier")>>)

Argvs ==
    [file_path : {"requirements.txt", "missing.txt", "-"},
     output : {"", "-", "out.txt"},
     in_place : BOOLEAN,
     dry_run : BOOLEAN,
     engine : {"", "node"},
     format_type : {"diff", "json"}]

InitApps ==
    \E content \in Contents :
        /\ Resolver(PyUnset, DefaultMaxConcurrency, AppRegistry, <<>>, {"timeout"})
        /\ \/ \E argv \in Argvs :
                /\ fs = [p \in Paths |->
                            CASE p = "requirements.txt" -> Text(content)
                              [] p = "out.txt" -> Earlier
                              [] OTHER -> Absent]
                /\ proc = [pc |-> "start", argv |-> argv, stdin |-> content,
                           content |-> <<>>, code |-> 0, printed |-> <<>>]
                /\ web = NoRequest
           \/ \E ecosystem \in {"", "python", "node"} :
                /\ fs = [p \in Paths |-> Absent]
                /\ proc = NoProcess
                /\ web = [pc |-> "start",
                          request |-> [content |-> content, ecosystem |-> ecosystem],
                          content |-> <<>>, ecosystem |-> "", response |-> Nothing]

InitCalls ==
    \E es \in SeqsUpTo(ChangeEntries, MaxLines) \ {<<>>} :
        /\ Resolver(PyUnset, DefaultMaxConcurrency, AppRegistry, es, {"timeout"})
        /\ fs = [p \in Paths |-> Absent]
        /\ proc = Caller
        /\ web = Caller

NextApps ==
    \/ update
    \/ update_dependencies
    \/ \E i \in Tasks : Run(i)
    \/ \E i \in Tasks, r \in {"200", "404", "timeout", "status", "network"} : Response(i, r)
    \/ update_output
    \/ update_dependencies_response
    \/ has_changes_called
    \/ _has_changes_called

SpecApps == (InitApps \/ InitCalls) /\ [][NextApps]_vars


(***************************************************************************)
(* The cache specification: a batch, names repeated, over a registry that   *)
(* knows two packages of three, with requests that can time out             *)
(***************************************************************************)
CacheRegistry ==
    [n \in Names |->
        CASE n = "a" -> Metadata(V100, <<Release(V100, <<>>)>>)
          [] n = "b" -> Metadata(V200, <<Release(V200, <<>>)>>)
          [] OTHER -> NoneMetadata]

InitCache ==
    \E es \in SeqsUpTo(SmallEntries, MaxEntries) :
        Constructed(PyUnset, DefaultMaxConcurrency, CacheRegistry, es, {"timeout"})

SpecCache == InitCache /\ [][NextResolve]_vars


(***************************************************************************)
(* The limiter specification: a batch whose entries leave resolve_entry in  *)
(* each of its ways (a result, package not found, a fetch error, no         *)
(* compatible versions), with at least one slot in the limiter and the      *)
(* scheduling of the timeout specification                                  *)
(***************************************************************************)
SlotsRegistry ==
    [n \in Names |->
        CASE n = "a" -> Metadata(V100, <<Release(V100, <<>>)>>)
          [] n = "b" -> Metadata(NoInfo, <<Release(BadVStr, <<>>)>>)
          [] OTHER -> NoneMetadata]

InitSlots ==
    \E mc \in 1..MaxConcurrencyBound, es \in SeqsUpTo(SmallEntries, MaxEntries) :
        Constructed(PyUnset, mc, SlotsRegistry, es, {"timeout"})

SpecSlots == InitSlots /\ [][NextLive]_vars /\ Fairness


(***************************************************************************)
(* The configurations specification: the batch of the timeout specification *)
(* on every resolver the constructor accepts, max_concurrency 0 included    *)
(* (asyncio.Semaphore raises ValueError for a negative value)               *)
(***************************************************************************)
InitAccepted ==
    \E mc \in 0..MaxConcurrencyBound, es \in SeqsUpTo(SmallEntries, MaxEntries) :
        Constructed(PyUnset, mc, LiveRegistry, es, {})

SpecAccepted == InitAccepted /\ [][NextLive]_vars /\ Fairness


(***************************************************************************)
(* The latest-version specification: get_latest_version beside the          *)
(* resolution of an entry without specifier, on a resolver without target  *)
(* runtime, over every metadata of a small universe                         *)
(***************************************************************************)
LatestKeys == {V100, V120, V200a1, BadVStr}

LatestDicts ==
    {rs \in SeqsUpTo([ver : LatestKeys, files : {<<>>}], MaxReleases) :
        \A i, j \in 1..Len(rs) : i # j => rs[i].ver # rs[j].ver}

InitLatest ==
    \E info \in {NoInfo, V100, V120, V200}, rs \in LatestDicts :
        Constructed(PyUnset, DefaultMaxConcurrency,
                    [n \in Names |-> IF n = "a" THEN Metadata(info, rs) ELSE NoneMetadata],
                    <<ManifestEntry("a", NoSpec, "", <<>>)>>,
                    {})

NextLatest ==
    \/ \E i \in Tasks : Run(i)
    \/ \E i \in Tasks, r \in {"200", "404"} : Response(i, r)
    \/ \E n \in Names : get_latest_version(n)
    \/ \E r \in {"200", "404"} : SideResponse(r)

SpecLatest == InitLatest /\ [][NextLatest]_vars

(***************************************************************************)
(* Properties. Their vocabulary is defined here, apart from the operators   *)
(* that model the code.                                                     *)
(***************************************************************************)
Range(f) == {f[i] : i \in DOMAIN f}

Finished(i) == pc[i] = "done"
Returned(i) == pc[i] = "done" /\ outcome[i].kind = "result"
Failed(i) == pc[i] = "done" /\ outcome[i].kind = "exc"

\* The tasks that hold a slot of the limiter
Holders == {i \in Tasks : pc[i] \in {"granted", "fetching"}}

\* Task i got the metadata of its package
Fetched(i) == Finished(i) /\ entries[i].name \in DOMAIN cache

\* Version ordering, component by component with missing components as 0
ComponentsLess(a, b) ==
    \E k \in 1..4 :
        /\ Component(a, k) < Component(b, k)
        /\ \A j \in 1..(k - 1) : Component(a, j) = Component(b, j)
ComponentsEqual(a, b) == \A k \in 1..4 : Component(a, k) = Component(b, k)
Precedes(a, b) ==
    \/ ComponentsLess(a.rel, b.rel)
    \/ ComponentsEqual(a.rel, b.rel) /\ a.pre = 1 /\ b.pre = 0
SameVersion(a, b) == ComponentsEqual(a.rel, b.rel) /\ a.pre = b.pre

\* The release versions of task i's package that are well formed
KnownVersions(i) ==
    {Version(r.ver) : r \in {x \in Range(registry[entries[i].name].releases) : x.ver.ok}}

\* ... and that the runtime filter keeps
Candidates(i) ==
    {Version(r.ver) : r \in {x \in Range(registry[entries[i].name].releases) :
        x.ver.ok /\ _is_compatible_with_python(python_version, x.files)}}

Unconstrained(i) == entries[i].spec.kind \in {"none", "empty"}
Parses(i) == entries[i].spec.kind = "set" /\ SpecifierSetOk(entries[i].spec)
Satisfying(i) == {v \in Candidates(i) : Contains(entries[i].spec, v)}
Chosen(i) == Version(outcome[i].chosen_version)
IsGreatestOf(v, S) == v \in S /\ \A c \in S : ~Precedes(v, c)

\* The entry is an exact pin "==V" of a listed release key V
PinnedTo(i, r) ==
    /\ r \in Range(registry[entries[i].name].releases)
    /\ r.ver.ok
    /\ entries[i].spec = SetSpec(<<Clause("==", r.ver)>>)

\* C1: resolve_entries returns its results in input order: whenever gather
\* returns, it returns one result per entry and the i-th result is the
\* result of the i-th entry, whatever the order the fetches completed in.
C1_InputOrder ==
    gather.state = "returned" =>
        /\ Len(gather.value) = Len(entries)
        /\ \A i \in Tasks :
              gather.value[i].kind = "result" /\ gather.value[i].entry = entries[i]

\* Three entries A, B, C whose fetches completed in the order C, A, B
C1_Witness ==
    /\ gather.state = "returned"
    /\ completion = <<3, 1, 2>>
    /\ entries[1] # entries[2] /\ entries[2] # entries[3] /\ entries[1] # entries[3]

\* C2: at most max_concurrency entries hold a limiter slot in any state of a
\* resolve_entries run, and an entry waits only while all slots are held.
C2_LimiterBound ==
    /\ Cardinality(Holders) <= max_concurrency
    /\ (\E i \in Tasks : pc[i] = "waiting") => Cardinality(Holders) = max_concurrency

\* Every slot is held and an entry waits
C2_Witness ==
    /\ max_concurrency >= 2
    /\ Cardinality(Holders) = max_concurrency
    /\ \E i \in Tasks : pc[i] = "waiting"

\* C3: the original statement: over the resolve_entry calls of a batch (no
\* get_latest_version call beside them), no package name is requested from
\* the registry more than once.
C3_AtMostOnce == side.pc = "idle" => \A n \in Names : requests[n] <= 1

\* C3, amended: a name is requested once, plus once for every request that
\* was issued while another request for the name was in flight and for every
\* request for the name that ended without metadata.
C3_OncePlusOverlapsAndFailures ==
    \A n \in Names : requests[n] <= 1 + overlaps[n] + failed[n]

\* Two entries of the batch name the same package, both got a result, and
\* the package was requested once
C3_Witness ==
    \E i, j \in Tasks :
        /\ i # j /\ entries[i].name = entries[j].name
        /\ Returned(i) /\ Returned(j)
        /\ requests[entries[i].name] = 1

\* C4: with a package name in the cache, a fetch of it (by resolve_entry or
\* by get_latest_version) issues no request and hands on the cached value:
\* the caller finishes in the same step, with what the cached metadata gives.
C4_CacheHit ==
    [][\A n \in DOMAIN cache :
          /\ requests'[n] = requests[n]
          /\ \A i \in Tasks :
                (/\ entries[i].name = n
                 /\ pc[i] \in {"created", "granted"}
                 /\ pc'[i] \notin {"created", "waiting", "granted"})
                => /\ pc'[i] = "done"
                   /\ outcome'[i] = ResolveWithMetadata(python_version, entries[i], cache[n])
          /\ (side.pc = "idle" /\ side'.pc # "idle" /\ side'.name = n)
                => /\ side'.pc = "done"
                   /\ side'.out = LatestWithMetadata(n, cache[n])
      ]_vars

\* get_latest_version and an entry of the batch both got their answer for a
\* package that was requested once
C4_Witness ==
    /\ side.pc = "done" /\ side.out.kind = "latest"
    /\ requests[side.name] = 1
    /\ \E i \in Tasks : entries[i].name = side.name /\ Returned(i)

\* C5: resolve_entries returns one result per entry, each entry's own, or it
\* fails: as soon as an entry has raised, the call has raised the exception of
\* the first entry that failed, and it never returns a list.
C5_AllOrNothing ==
    /\ gather.state = "returned" =>
          /\ Len(gather.value) = Len(entries)
          /\ \A i \in Tasks : Returned(i) /\ gather.value[i] = outcome[i]
    /\ (\E i \in Tasks : Failed(i)) =>
          /\ gather.state = "raised"
          /\ \E k \in 1..Len(completion) :
                /\ Failed(completion[k])
                /\ \A j \in 1..(k - 1) : Returned(completion[j])
                /\ gather.value = <<outcome[completion[k]]>>

\* The call raised although an entry finished with a result before the failure
C5_Witness ==
    /\ gather.state = "raised"
    /\ Len(completion) >= 2
    /\ Returned(completion[1])

\* C6: a failed entry does not cancel its siblings: no task is ever
\* cancelled; in the step in which an entry fails every other task stays
\* where it is (but for a queued one that is handed the freed slot); and
\* before and after the failure a task only moves on through waiting,
\* granted, fetching and done, a queued one staying in the limiter's queue.
C6_NoCancellation ==
    [][\A i \in Tasks :
          /\ pc'[i] # "cancelled"
          /\ pc[i] = "waiting" => (i \in Range(sem_waiters) /\ pc'[i] \in {"waiting", "granted"})
          /\ pc[i] = "granted" => pc'[i] \in {"granted", "fetching", "done"}
          /\ pc[i] = "fetching" => pc'[i] \in {"fetching", "done"}
          /\ pc[i] = "done" => pc'[i] = "done"
          /\ (~Failed(i) /\ Failed(i)') =>
                \A j \in Tasks \ {i} :
                    pc'[j] = pc[j] \/ (pc[j] = "waiting" /\ pc'[j] = "granted")
      ]_vars

\* After the call had raised, an entry that was queued then and one that was
\* in flight finished with their results
C6_Witness ==
    /\ gather.state = "raised"
    /\ Cardinality({i \in late : Returned(i)}) >= 2
    /\ max_concurrency = 2

\* C7: for an entry with no specifier, the chosen version is the greatest, by
\* version ordering, of the release versions the runtime filter kept, and the
\* reason says it is the latest version with no constraints.
C7_NoSpecifierLatest ==
    \A i \in Tasks :
        (Fetched(i) /\ Unconstrained(i) /\ Candidates(i) # {}) =>
            /\ Returned(i)
            /\ IsGreatestOf(Chosen(i), Candidates(i))
            /\ outcome[i].reason.msg = "Latest available version (no constraints)"
            /\ outcome[i].reason.spec = NoSpec

\* 1.10.0 is chosen over 1.2.0, with a later release excluded by the filter
C7_Witness ==
    \E i \in Tasks :
        /\ Returned(i) /\ Unconstrained(i)
        /\ python_version.set
        /\ outcome[i].chosen_version = V1100
        /\ Version(V120) \in Candidates(i)
        /\ Version(Vv200) \in KnownVersions(i) \ Candidates(i)

\* C8: for an entry whose specifier parses and is satisfied by a release
\* version the runtime filter kept, the chosen version satisfies the
\* specifier and is the greatest that does, and the reason names the
\* constraint.
C8_LatestSatisfying ==
    \A i \in Tasks :
        (Fetched(i) /\ Parses(i) /\ Satisfying(i) # {}) =>
            /\ Returned(i)
            /\ IsGreatestOf(Chosen(i), Satisfying(i))
            /\ outcome[i].reason.msg = "Latest version satisfying constraint"
            /\ outcome[i].reason.spec = entries[i].spec

\* ">=1.0,<1.10.0" chooses 1.2.0 although 1.10.0 is a candidate
C8_Witness ==
    \E i \in Tasks :
        /\ Returned(i)
        /\ Len(entries[i].spec.clauses) = 2
        /\ outcome[i].chosen_version = V120
        /\ Version(V1100) \in Candidates(i)

\* C9: the original statement: an entry whose specifier parses but excludes
\* every known release version does not fail; it gets the greatest candidate
\* and a reason that says no version satisfies.
C9_FallbackNeverFails ==
    \A i \in Tasks :
        (/\ Fetched(i) /\ Parses(i)
         /\ KnownVersions(i) # {}
         /\ \A v \in KnownVersions(i) : ~Contains(entries[i].spec, v)) =>
            /\ Returned(i)
            /\ IsGreatestOf(Chosen(i), Candidates(i))
            /\ outcome[i].reason.msg = "No versions satisfy, using latest available"

\* C9, amended: the same, for an entry of a package with at least one release
\* version that the runtime filter keeps.
C9_FallbackToLatest ==
    \A i \in Tasks :
        (/\ Fetched(i) /\ Parses(i)
         /\ Candidates(i) # {}
         /\ \A v \in KnownVersions(i) : ~Contains(entries[i].spec, v)) =>
            /\ Returned(i)
            /\ IsGreatestOf(Chosen(i), Candidates(i))
            /\ outcome[i].reason.msg = "No versions satisfy, using latest available"
            /\ outcome[i].reason.spec = entries[i].spec

\* "==3.0.0" on a package without 3.0.0: 1.10.0 is chosen though 1.0.0 is
\* listed first
C9_Witness ==
    \E i \in Tasks :
        /\ Returned(i)
        /\ entries[i].spec = SetSpec(<<Clause("==", V300)>>)
        /\ registry[entries[i].name].releases[1].ver = V100
        /\ outcome[i].chosen_version = V1100
        /\ outcome[i].reason.msg = "No versions satisfy, using latest available"

\* C10: the original statement: an exact pin "==V" of a known release
\* version V chooses V, with delta unknown.
C10_PinKeepsKnownVersion ==
    \A i \in Tasks :
        \A r \in Range(registry[entries[i].name].releases) :
            (Fetched(i) /\ PinnedTo(i, r)) =>
                /\ Returned(i)
                /\ SameVersion(Chosen(i), Version(r.ver))
                /\ outcome[i].semver_delta = "unknown"

\* C10, amended: an exact pin "==V" of a known release version V that the
\* runtime filter keeps chooses V, with delta unknown.
C10_PinKeepsCompatibleVersion ==
    \A i \in Tasks :
        \A r \in Range(registry[entries[i].name].releases) :
            (/\ Fetched(i) /\ PinnedTo(i, r)
             /\ _is_compatible_with_python(python_version, r.files)) =>
                /\ Returned(i)
                /\ SameVersion(Chosen(i), Version(r.ver))
                /\ outcome[i].semver_delta = "unknown"

\* "==1.0.0" keeps 1.0.0 although 1.2.0 is a candidate too
C10_Witness ==
    \E i \in Tasks :
        /\ Returned(i)
        /\ entries[i].spec = SetSpec(<<Clause("==", V100)>>)
        /\ outcome[i].chosen_version = V100
        /\ Version(V120) \in Candidates(i)
        /\ python_version.set

(***************************************************************************)
(* The runtime filter                                                       *)
(***************************************************************************)
Releases(i) == Range(registry[entries[i].name].releases)

\* The file record carries no compatibility expression: no key, or no value
LacksExpression(f) == ~f.has_rp \/ f.rp.kind \in {"none", "empty"}
\* ... carries one that parses
DeclaresExpression(f) == f.has_rp /\ f.rp.kind = "set" /\ SpecifierSetOk(f.rp)
TargetSet == python_version.set /\ python_version.ver.ok
TargetSatisfies(f) == Contains(f.rp, Version(python_version.ver))
Unsatisfied(f) == TargetSet /\ DeclaresExpression(f) /\ ~TargetSatisfies(f)
Satisfied(f) == TargetSet /\ DeclaresExpression(f) /\ TargetSatisfies(f)

NoCompatibleVersions(i) ==
    Failed(i) /\ outcome[i].msg = "No compatible versions found for"

\* Release r of task i's package is among the candidates of the resolution
Retained(i, r) == Version(r.ver) \in Candidates(i) /\ ~NoCompatibleVersions(i)

\* C11: for every target runtime, a well-formed release version with at
\* least one file record that carries no compatibility expression is kept by
\* the filter, whatever its other file records declare.
C11_FileWithoutExpressionKeeps ==
    \A i \in Tasks :
        Fetched(i) =>
            \A r \in Releases(i) :
                (r.ver.ok /\ \E k \in DOMAIN r.files : LacksExpression(r.files[k]))
                    => Retained(i, r)

\* C12: with a target runtime configured, a well-formed release version
\* with a file record whose expression the target does not satisfy is kept
\* all the same if another of its file records declares an expression that
\* the target satisfies.
C12_CompatibleFileKeeps ==
    \A i \in Tasks :
        Fetched(i) =>
            \A r \in Releases(i) :
                (/\ r.ver.ok
                 /\ \E k \in DOMAIN r.files : Unsatisfied(r.files[k])
                 /\ \E k \in DOMAIN r.files : Satisfied(r.files[k]))
                    => Retained(i, r)

\* C13: with a target runtime configured, a well-formed release version
\* that has file records, all of them with an expression that parses and
\* that the target does not satisfy, is not a candidate and is never the
\* chosen version.
C13_AllRejectingExcluded ==
    \A i \in Tasks :
        (Fetched(i) /\ TargetSet) =>
            \A r \in Releases(i) :
                (/\ r.ver.ok
                 /\ r.files # <<>>
                 /\ \A k \in DOMAIN r.files : Unsatisfied(r.files[k]))
                    => /\ Version(r.ver) \notin Candidates(i)
                       /\ Returned(i) => ~SameVersion(Chosen(i), Version(r.ver))

\* ">=1.0.0" with 1.2.0 excluded by both of its files: 1.0.0 is chosen
C13_Witness ==
    \E i \in Tasks :
        /\ Returned(i) /\ TargetSet
        /\ entries[i].spec = SetSpec(<<Clause(">=", V100)>>)
        /\ outcome[i].chosen_version = V100
        /\ \E r \in Releases(i) :
              /\ r.ver = V120 /\ Len(r.files) = 2
              /\ \A k \in DOMAIN r.files : Unsatisfied(r.files[k])

(***************************************************************************)
(* The delta classifier                                                     *)
(***************************************************************************)
\* The entry's specifier is "==V", or V alone written as digits, a dot and
\* more (what the classifier takes for a plain version number)
ExactPin(i) ==
    LET sp == entries[i].spec IN
    /\ sp.kind \in {"set", "bare"}
    /\ Len(sp.clauses) = 1
    /\ sp.clauses[1].ver.ok
    /\ \/ sp.kind = "set" /\ sp.clauses[1].op = "=="
       \/ sp.kind = "bare" /\ sp.clauses[1].ver.lead = "" /\ Len(sp.clauses[1].ver.rel) >= 2
Baseline(i) == Version(entries[i].spec.clauses[1].ver)
Delta(i) == outcome[i].semver_delta

C15_UnknownUnlessPinnedBelow ==
    \A i \in Tasks :
        Returned(i) =>
            /\ Unconstrained(i) => Delta(i) = "unknown"
            /\ ~ExactPin(i) => Delta(i) = "unknown"
            /\ (ExactPin(i) /\ ~Precedes(Baseline(i), Chosen(i))) => Delta(i) = "unknown"
            /\ Delta(i) \in {"major", "minor", "patch", "unknown"}
            /\ Delta(i) # "unknown" => (ExactPin(i) /\ Precedes(Baseline(i), Chosen(i)))

\* ">=1.0.0" resolved to 2.1.3: unknown, although the version went up
C15_Witness ==
    \E i \in Tasks :
        /\ Returned(i)
        /\ entries[i].spec = SetSpec(<<Clause(">=", V100)>>)
        /\ outcome[i].chosen_version = V213
        /\ Delta(i) = "unknown"

(***************************************************************************)
(* Failures of the fetch                                                    *)
(***************************************************************************)
FetchErrors == {"timeout", "status", "network"}
FetchErrorTexts ==
    {"Timeout fetching metadata for", "HTTP error fetching", "Network error fetching"}
PackageNotFound(i) ==
    Failed(i) /\ outcome[i] = Raised("Package not found", entries[i].name)

\* C16: an entry whose request was answered 404 fails with the
\* package-not-found error and has no result, and no entry whose request
\* failed otherwise ends in that error.
C16_NotFoundRaises ==
    \A i \in Tasks :
        /\ answer[i] = "404" => (PackageNotFound(i) /\ ~Returned(i))
        /\ answer[i] \in FetchErrors => ~PackageNotFound(i)

\* One entry got 404 and another entry for the same package a fetch error
C16_Witness ==
    \E i, j \in Tasks :
        /\ entries[i].name = entries[j].name
        /\ answer[i] = "404" /\ PackageNotFound(i)
        /\ answer[j] = "status" /\ Failed(j)

\* The tasks of the batch that sent a request for package n
Requesters(n) ==
    {i \in Tasks : entries[i].name = n /\ (pc[i] = "fetching" \/ answer[i] # "none")}

\* C17: an entry whose request ended in a timeout, a transport error or an
\* error status fails with a fetch error that names its package and has no
\* result; and there is no retry: the requests sent for a package are one
\* per call that asked for it, the failed calls included.
C17_FetchErrorRaisesOnce ==
    /\ \A i \in Tasks :
          answer[i] \in FetchErrors =>
              /\ Failed(i)
              /\ outcome[i].name = entries[i].name
              /\ outcome[i].msg \in FetchErrorTexts
    /\ \A n \in Names : requests[n] = Cardinality(Requesters(n))

\* Each kind of failure has happened to an entry of the batch
C17_Witness ==
    /\ \A r \in FetchErrors : \E i \in Tasks : answer[i] = r /\ Failed(i)
    /\ \A n \in Names : requests[n] = Cardinality(Requesters(n))

(***************************************************************************)
(* Specifiers that do not parse; no candidate left                          *)
(***************************************************************************)
Invalid(i) == Truthy(entries[i].spec) /\ ~SpecifierSetOk(entries[i].spec)

\* What resolve_entry gives for task i's entry without its specifier
WithoutSpecifier(i) ==
    ResolveWithMetadata(python_version, [entries[i] EXCEPT !.spec = NoSpec],
                        registry[entries[i].name])

\* C18: the original statement: an entry whose specifier does not parse,
\* of a package with release versions, does not fail; it gets the greatest
\* candidate and a reason that says the constraint is invalid.
C18_InvalidNeverFails ==
    \A i \in Tasks :
        (Fetched(i) /\ Invalid(i) /\ KnownVersions(i) # {}) =>
            /\ Returned(i)
            /\ IsGreatestOf(Chosen(i), Candidates(i))
            /\ outcome[i].reason.msg = "Invalid constraint, using latest available"

\* C18, amended: the same, for an entry of a package with at least one
\* release version that the runtime filter keeps.
C18_InvalidAsUnconstrained ==
    \A i \in Tasks :
        (Fetched(i) /\ Invalid(i) /\ Candidates(i) # {}) =>
            /\ Returned(i)
            /\ IsGreatestOf(Chosen(i), Candidates(i))
            /\ WithoutSpecifier(i).kind = "result"
            /\ outcome[i].chosen_version = WithoutSpecifier(i).chosen_version
            /\ outcome[i].reason.msg = "Invalid constraint, using latest available"
            /\ outcome[i].reason.spec = entries[i].spec

\* A specifier that is no specifier: 1.10.0 is chosen though 1.2.0 is listed
\* first and v2.0.0 is excluded by the filter
C18_Witness ==
    \E i \in Tasks :
        /\ Returned(i)
        /\ entries[i].spec = JunkSpec
        /\ python_version.set
        /\ registry[entries[i].name].releases[1].ver = V120
        /\ outcome[i].chosen_version = V1100
        /\ Version(Vv200) \in KnownVersions(i) \ Candidates(i)

\* C19: when the package has releases and none of them is a well-formed
\* version that the runtime filter keeps, resolve_entry fails with the
\* no-compatible-versions error; and a result's chosen version is always one
\* of the well-formed release versions that the filter keeps.
C19_NoCandidateRaises ==
    \A i \in Tasks :
        Fetched(i) =>
            /\ (registry[entries[i].name].releases # <<>> /\ Candidates(i) = {})
                  => (NoCompatibleVersions(i) /\ ~Returned(i))
            /\ NoCompatibleVersions(i) => Candidates(i) = {}
            /\ Returned(i) => Chosen(i) \in Candidates(i)

\* A malformed release key and a release the filter excludes: nothing left
C19_Witness ==
    \E i \in Tasks :
        /\ NoCompatibleVersions(i)
        /\ \E r \in Releases(i) : ~r.ver.ok
        /\ \E r \in Releases(i) : r.ver.ok /\ r.files # <<>>

(***************************************************************************)
(* Timeouts                                                                 *)
(***************************************************************************)
\* Task i waits for an answer that never comes
AwaitsSilent(i) ==
    i \in Tasks /\ pc[i] = "fetching" /\ Silent(registry[entries[i].name])
TimedOut(i) ==
    /\ i \in Tasks /\ Failed(i)
    /\ outcome[i] = Raised("Timeout fetching metadata for", entries[i].name)

\* C20: an entry whose request is never answered ends in the timeout
\* failure of resolve_entry, and the batch does not hang on it: every task
\* finishes and resolve_entries returns or raises.
C20_TimeoutEnds ==
    /\ \A i \in 1..MaxEntries : AwaitsSilent(i) ~> TimedOut(i)
    /\ <>(gather.state # "pending" /\ \A i \in Tasks : Finished(i))

\* With one slot, an entry that was queued behind the silent request got its
\* result after the timeout
C20_Witness ==
    /\ max_concurrency = 1
    /\ Len(entries) >= 2
    /\ TimedOut(1)
    /\ Returned(2)
    /\ gather.state = "raised"

(***************************************************************************)
(* The entry in the result                                                  *)
(***************************************************************************)
\* What resolve_entry gives for task i's entry without markers and extras
WithoutMarkers(i) ==
    ResolveWithMetadata(python_version,
                        [entries[i] EXCEPT !.markers = "", !.extras = <<>>],
                        registry[entries[i].name])

\* C21: a result carries the entry it was made for, with its name,
\* specifier, markers and extras as given, and the markers decide nothing:
\* version, reason and delta are those of the entry without markers.
C21_EntryCarried ==
    \A i \in Tasks :
        /\ Returned(i) =>
              /\ outcome[i].entry = entries[i]
              /\ WithoutMarkers(i).kind = "result"
              /\ outcome[i].chosen_version = WithoutMarkers(i).chosen_version
              /\ outcome[i].reason = WithoutMarkers(i).reason
              /\ outcome[i].semver_delta = WithoutMarkers(i).semver_delta
        /\ (Fetched(i) /\ Failed(i)) => outcome[i] = WithoutMarkers(i)

\* An entry marked for Python 3.12 and up is resolved under target 3.11
C21_Witness ==
    \E i \in Tasks :
        /\ Returned(i)
        /\ python_version = Py311
        /\ entries[i].markers = "python_version >= '3.12'"
        /\ Len(entries[i].extras) = 2
        /\ outcome[i].entry.markers = entries[i].markers
        /\ outcome[i].chosen_version = V1100

(***************************************************************************)
(* The update command                                                       *)
(***************************************************************************)
Exited == proc.pc = "exited"

\* C22: a command given --dry-run writes no file: whatever the other
\* options are, no step of it changes the input manifest, the --out target
\* or any other file.
C22_DryRunWritesNothing ==
    [][(proc.pc \in {"start", "resolving", "exited"} /\ proc.argv.dry_run)
          => fs' = fs]_vars

\* A dry run with --in-place and --out that ended with its output printed
C22_Witness ==
    /\ Exited
    /\ proc.code = 0
    /\ proc.argv.dry_run /\ proc.argv.in_place /\ proc.argv.output = "out.txt"
    /\ proc.argv.file_path = "requirements.txt"
    /\ proc.printed[1].kind = "output"
    /\ fs["out.txt"] = Earlier
    /\ fs["requirements.txt"] = Text(proc.content)

\* The files as they were before the command ran
Untouched ==
    fs = [p \in Paths |->
            CASE p = "requirements.txt" -> Text(proc.stdin)
              [] p = "out.txt" -> Earlier
              [] OTHER -> Absent]

\* The command got as far as resolve_entries, which returned or raised
ResolutionSucceeded == entries # <<>> /\ gather.state = "returned"
ResolutionRaised == entries # <<>> /\ gather.state = "raised"

\* The result's entry is pinned, by "==" or by the bare version, to the very
\* text of the chosen version
PinnedAt(result) ==
    LET sp == result.entry.spec IN
    /\ sp.kind \in {"set", "bare"}
    /\ Len(sp.clauses) = 1
    /\ sp.kind = "set" => sp.clauses[1].op = "=="
    /\ sp.clauses[1].ver = result.chosen_version

NoEntryChanged == \A k \in 1..Len(gather.value) : PinnedAt(gather.value[k])

InputMissing == proc.argv.file_path # "-" /\ proc.argv.file_path = "missing.txt"

\* The ecosystem forced by --engine, or else detected, is not python
EcosystemUnsupported ==
    /\ ~InputMissing
    /\ IF proc.argv.engine # "" THEN proc.argv.engine # "python"
       ELSE identify(proc.stdin, IF proc.argv.file_path = "-" THEN NoFilename
                                 ELSE proc.argv.file_path) # "python"

\* The updated output was printed, or written to a file
OutputDelivered ==
    \/ \E k \in 1..Len(proc.printed) : proc.printed[k].kind = "output"
    \/ \E p \in Paths :
          /\ fs[p] # Absent
          /\ fs[p] \in {format_json_output(gather.value),
                        update_manifest_content(proc.content, gather.value)}
          /\ ~Untouched

\* No line of the manifest is a requirement
NoDependencies ==
    \A k \in 1..Len(proc.content) : proc.content[k].kind # "req"

ExitTwoAndOne ==
    /\ (ResolutionSucceeded /\ NoEntryChanged) => (proc.code = 2 /\ Untouched)
    /\ (InputMissing \/ EcosystemUnsupported \/ ResolutionRaised) => proc.code = 1

\* C23 as stated: the command ends with 2, no file written, when resolution
\* succeeds and no entry has a change, with 1 when the input is missing, the
\* ecosystem unsupported or resolution raises, and with 0 only after the
\* updated output was printed or written.
C23_ExitCodes ==
    Exited => (ExitTwoAndOne /\ (proc.code = 0 => OutputDelivered))

\* C23, amended: as above, but the command also ends with 0, nothing
\* resolved and nothing written, for a manifest without dependencies.
C23_ExitCodesOrNoDependencies ==
    Exited =>
        /\ ExitTwoAndOne
        /\ proc.code = 0 =>
              \/ OutputDelivered
              \/ NoDependencies /\ entries = <<>> /\ Untouched

\* Both entries are pinned at the versions chosen: the command, asked to
\* write in place, ends with 2
C23_Witness ==
    /\ Exited
    /\ proc.code = 2
    /\ ResolutionSucceeded /\ NoEntryChanged
    /\ Len(entries) = 2
    /\ proc.argv.in_place /\ ~proc.argv.dry_run
    /\ proc.argv.file_path = "requirements.txt"

(***************************************************************************)
(* Change detection                                                         *)
(***************************************************************************)
\* C24: an entry counts as changed unless it is pinned, by "==" or by the
\* bare version, to the very text of the chosen version: an entry with no
\* specifier or with a range always counts, a pin at the chosen version
\* never. The web test says so entry by entry, the command's for the list.
C24_ChangedUnlessPinnedAtChosen ==
    /\ web.pc = "called" =>
          \A k \in 1..Len(gather.value) :
              web.has_change[k] <=> ~PinnedAt(gather.value[k])
    /\ proc.pc = "called" =>
          (proc.has_changes <=> \E k \in 1..Len(gather.value) : ~PinnedAt(gather.value[k]))
    /\ (web.pc = "responded" /\ web.response.status = 200) =>
          \A k \in 1..Len(gather.value) :
              web.response.changes[k].has_change <=> ~PinnedAt(gather.value[k])

\* "==1.2" resolved to 1.2.0 counts as changed, beside "1.2.0" that does not
C24_Witness ==
    /\ web.pc = "called"
    /\ \E j, k \in 1..Len(gather.value) :
          /\ gather.value[j].entry.spec = SetSpec(<<Clause("==", V12)>>)
          /\ gather.value[j].chosen_version = V120
          /\ web.has_change[j]
          /\ gather.value[k].entry.spec = BareSpec(V120)
          /\ ~web.has_change[k]

(***************************************************************************)
(* The metadata cache                                                       *)
(***************************************************************************)
\* The request of task i ends in this step, answered r
Answered(i, r) == answer[i] = "none" /\ answer'[i] = r

\* C25: the cache only grows and holds only successful responses. No step
\* removes an entry; every entry is the registry's answer for its name; a
\* fetch that ends in not-found or in an error leaves the cache as it was; a
\* successful one has stored the response under its name when it returns;
\* and after two overlapping fetches of a name, one of them successful, the
\* cache holds that response.
C25_CacheGrowsWithSuccesses ==
    [][/\ \A n \in DOMAIN cache : n \in DOMAIN cache'
       /\ \A n \in DOMAIN cache' : cache'[n].found /\ cache'[n] = registry[n]
       /\ \A i \in Tasks :
             /\ (\E r \in {"404", "timeout", "status", "network"} : Answered(i, r))
                   => cache' = cache
             /\ Answered(i, "200") =>
                   /\ entries[i].name \in DOMAIN cache'
                   /\ cache'[entries[i].name] = registry[entries[i].name]
       /\ cache' # cache => \E i \in Tasks : Answered(i, "200")
       /\ \A n \in Names :
             (overlaps'[n] > 0 /\ \E i \in Tasks : entries[i].name = n /\ answer'[i] = "200")
                => (n \in DOMAIN cache' /\ cache'[n] = registry[n])
      ]_vars

\* Two overlapping fetches of a package, the first answered, the second timed
\* out after it, and a third package not found: the cache holds the answer
C25_Witness ==
    /\ Len(entries) = 3
    /\ entries[1].name = "a" /\ entries[2].name = "a" /\ entries[3].name = "c"
    /\ overlaps["a"] > 0
    /\ answer = <<"200", "timeout", "404">>
    /\ completion = <<1, 3, 2>>
    /\ DOMAIN cache = {"a"}
    /\ cache["a"] = registry["a"]

(***************************************************************************)
(* The limiter's slots                                                      *)
(***************************************************************************)
Queued(i) == i \in Tasks /\ pc[i] = "waiting"

\* C26: the slot taken by resolve_entry is given back however it ends. The
\* free slots and the slots held always add up to max_concurrency; once all
\* tasks of the batch have finished, whether it returned or raised, every
\* slot is free and nobody is queued, as on a new resolver; and an entry
\* queued while others fail is not left behind: it finishes.
C26_SlotsGivenBack ==
    /\ [](sem_value + Cardinality(Holders) = max_concurrency)
    /\ []((\A i \in Tasks : Finished(i))
             => (sem_value = max_concurrency /\ sem_waiters = <<>>))
    /\ \A i \in 1..MaxEntries : Queued(i) ~> (i \in Tasks /\ Finished(i))

\* One slot: not found, then no compatible versions, then a result for the
\* entry queued behind them; the slot is free again
C26_Witness ==
    /\ max_concurrency = 1
    /\ Len(entries) = 3
    /\ completion = <<1, 2, 3>>
    /\ outcome[1] = Raised("Package not found", "c")
    /\ outcome[2] = Raised("No compatible versions found for", "b")
    /\ Returned(3)
    /\ gather.state = "raised"
    /\ sem_value = 1 /\ sem_waiters = <<>>

(***************************************************************************)
(* Termination on every accepted configuration                              *)
(***************************************************************************)
\* Task i has the slot, or had it
Acquired(i) == i \in Tasks /\ pc[i] \in {"granted", "fetching", "done"}

\* C27: on every resolver the constructor accepts, max_concurrency 0
\* included, with every request answered or timed out, every entry of a
\* batch eventually acquires a slot and finishes, and resolve_entries
\* eventually returns or raises.
C27_EveryBatchEnds ==
    /\ \A i \in 1..MaxEntries : (i \in Tasks) ~> Acquired(i)
    /\ \A i \in 1..MaxEntries : (i \in Tasks) ~> (i \in Tasks /\ Finished(i))
    /\ <>(gather.state # "pending")

(***************************************************************************)
(* Manifest rewriting                                                       *)
(***************************************************************************)
\* The manifests the command printed or wrote
CommandManifests ==
    {item.content.lines :
        item \in {x \in Range(proc.printed) :
                    x.kind = "output" /\ x.content.format = "manifest"}}
    \cup {fs[p].lines :
            p \in {q \in {"requirements.txt", "out.txt"} :
                     /\ fs[q].format = "manifest"
                     /\ fs[q] # (IF q = "out.txt" THEN Earlier ELSE Text(proc.stdin))}}

\* The results for the package that line names
ResultsFor(line) ==
    {r \in Range(gather.value) : r.entry.name = line.name}

\* out is name==chosen_version, for the package the line names and a version
\* chosen for that package
PinOf(line, out) ==
    /\ out.kind = "req"
    /\ out.name = line.name
    /\ \E r \in ResultsFor(line) : out.spec = SetSpec(<<Clause("==", r.chosen_version)>>)

\* Rewriting content gave out: comments and blank lines are kept, a line
\* that names a resolved package is that package's pin (or, where the lines
\* of unchanged entries are left alone, the line itself)
Rewritten(content, out, leaves) ==
    /\ Len(out) = Len(content)
    /\ \A k \in 1..Len(content) :
          /\ content[k].kind \in {"blank", "comment"} => out[k] = content[k]
          /\ (content[k].kind = "req" /\ ResultsFor(content[k]) # {}) =>
                \/ PinOf(content[k], out[k])
                \/ /\ leaves
                   /\ out[k] = content[k]
                   /\ \E r \in ResultsFor(content[k]) : PinnedAt(r)

\* C28: rewriting, in the command and in the web application, replaces a
\* line that names package P by the pin of the result for P, never by that
\* of another package, one whose name begins P's included, and leaves
\* comment and blank lines as they are.
C28_LineGetsItsOwnResult ==
    /\ (Exited /\ proc.code = 0) =>
          \A out \in CommandManifests : Rewritten(proc.content, out, FALSE)
    /\ (web.pc = "responded" /\ web.response.status = 200 /\ web.response.has_changes) =>
          Rewritten(web.content, web.response.updated_content, TRUE)

(***************************************************************************)
(* get_latest_version beside resolve_entry                                  *)
(***************************************************************************)
\* get_latest_version and task i have both ended, for the same package
BothEnded(i) ==
    /\ i \in Tasks /\ Finished(i) /\ Unconstrained(i)
    /\ side.pc = "done" /\ side.name = entries[i].name

LatestReturned == side.out.kind = "latest"

\* The two calls agree: both return, the same version, or neither does
Agree(i) ==
    /\ LatestReturned <=> Returned(i)
    /\ Returned(i) => side.out.version = outcome[i].chosen_version

\* The metadata's info.version, where there is one, is the text of the
\* greatest known release version; where there is none, every release key
\* is a version
InfoIsGreatest(i) ==
    LET metadata == registry[entries[i].name] IN
    IF metadata.info.ok
    THEN /\ KnownVersions(i) # {}
         /\ \A v \in KnownVersions(i) :
               IsGreatestOf(v, KnownVersions(i)) => metadata.info = VersionStr(v)
    ELSE \A r \in Releases(i) : r.ver.ok

WebReportsNoChange(content, results) ==
    ~_has_changes(results) /\ UpdatedContent(content, results) = content

\* C30: the command and the web application agree on change detection.
\* Called on the same results, has_changes and _has_changes give the same
\* answer; the command ends with 2 exactly for the results for which the
\* web application reports no change and returns the content as it was; and
\* the web application does so exactly for the results on which the
\* command's test finds no change.
C30_SameChangeDetection ==
    /\ (proc.pc = "called" /\ web.pc = "called") => proc.has_changes = web.has_changes
    /\ (Exited /\ ResolutionSucceeded) =>
          (proc.code = 2 <=> WebReportsNoChange(proc.content, gather.value))
    /\ (web.pc = "responded" /\ web.response.status = 200) =>
          ((~web.response.has_changes
            /\ web.response.updated_content = web.response.original_content)
              <=> ~has_changes(gather.value))

\* Two results, the first pinned at its chosen version and the second not:
\* both tests find the change
C30_Witness ==
    /\ proc.pc = "called" /\ web.pc = "called"
    /\ Len(gather.value) = 2
    /\ PinnedAt(gather.value[1])
    /\ ~PinnedAt(gather.value[2])
    /\ proc.has_changes /\ web.has_changes
====
